---- MODULE Spec2Model ----
(***************************************************************************)
(* The squash_person_overrides job of dags/person_overrides.py: a linear   *)
(* pipeline of ops, each a fan-out of one host operation over the hosts of *)
(* a ClickHouse cluster.  The cluster's tables, dictionary and mutations   *)
(* are modelled per host, as the statements of the source read and write   *)
(* them.                                                                   *)
(*                                                                         *)
(* A behaviour starts as one of three kinds of run (see Init): a run on a  *)
(* small cluster in which the environment may fail, retry and write; a     *)
(* fault-free run on any cluster of up to MaxHosts hosts; a fault-free run *)
(* on one host over any override log of up to MaxOverrides rows.           *)
(***************************************************************************)
EXTENDS Integers, Sequences, FiniteSets, TLC

\* ------------------------------------------------------------------ bounds
MaxHosts == 3        \* hosts of the cluster, over all shards
MaxFaultyHosts == 2  \* hosts of a cluster whose run admits faults
MaxVersion == 2      \* override versions are 1..MaxVersion
MaxTime == 2         \* _timestamp values are 0..MaxTime
MaxOverrides == 2    \* rows the override log holds when the job starts
MaxWrites == 1       \* overrides written while the job runs
MaxFaults == 1       \* environment faults (lost connections, foreign writes, kills)
MaxRetries == 1      \* re-executions of an op that raised
HashBits == 4        \* width of the modelled row hash
HexDigits == 2       \* hex digits of a run identifier (uuid.hex)
MaxRunId == 33       \* run identifiers are 0..MaxRunId
MaxNow == 2          \* the clock of the batch exports runs 0..MaxNow
MaxRequests == 3     \* calls of the batch-export service in a behaviour
MaxRows == 3         \* rows of a dictionary whose checksum is compared across orders
MaxOtherRuns == 1    \* mutations of other runs on the cluster

\* SnapshotTableConfig.timestamp: the exclusive upper bound of populate.
timestamp == 1

TeamIds == {1}
DistinctIds == {1, 2}
PersonIds == {8, 9}
Versions == 1..MaxVersion
Times == 0..MaxTime

\* A key of the override log, of the snapshot and of the dictionary.
Keys == [team_id : TeamIds, distinct_id : DistinctIds]

\* Rows of person_distinct_id_overrides.
OverrideRows ==
  [team_id : TeamIds, distinct_id : DistinctIds, person_id : PersonIds,
   version : Versions, timestamp : Times]

\* Rows of the snapshot table (and of the dictionary sourced from it).
SnapshotRows ==
  [team_id : TeamIds, distinct_id : DistinctIds, person_id : PersonIds,
   version : Versions]

KeyOf(r) == [team_id |-> r.team_id, distinct_id |-> r.distinct_id]

\* The override log of the runs that vary the cluster: identity 1 of team 1
\* redirected to person 9, at versions 1 and 2, before the cutoff.
EndToEnd ==
  {r \in OverrideRows :
     r.distinct_id = 1 /\ r.person_id = 9 /\ r.timestamp = 0 /\ r.version <= 2}

Scenarios == {EndToEnd, {r \in EndToEnd : r.version = 1}}

\* The override ingestion writes while the job runs: a newer redirect of
\* identity 1, past the cutoff.
RacingRows ==
  {r \in OverrideRows :
     /\ r.distinct_id = 1 /\ r.person_id = 9
     /\ r.version = MaxVersion /\ r.timestamp = MaxTime}

\* The rows somebody else inserts into the snapshot table.
ForeignRows ==
  {r \in SnapshotRows : r.distinct_id = 2 /\ r.person_id = 9 /\ r.version = MaxVersion}

\* ---------------------------------------------------------------- topology
\* A host is one replica of one shard.
AllHosts == [shard_num : 1..MaxHosts, replica_num : 1..MaxHosts]

ShardsOf(T) == {h.shard_num : h \in T}

HostsInShard(T, s) == {h \in T : h.shard_num = s}

\* Shards are numbered 1..n, the replicas of a shard 1..m; shards are listed
\* by non-increasing replica count (the code treats shards alike).
Topologies ==
  {T \in SUBSET AllHosts :
     /\ T # {}
     /\ Cardinality(T) <= MaxHosts
     /\ \A h \in T :
          /\ h.replica_num > 1 =>
               [shard_num |-> h.shard_num, replica_num |-> h.replica_num - 1] \in T
          /\ h.shard_num > 1 =>
               [shard_num |-> h.shard_num - 1, replica_num |-> h.replica_num] \in T}

\* ----------------------------------------------------------- pure queries
Max(S) == CHOOSE x \in S : \A y \in S : y <= x

\* The cutoff taken as inclusive.
Eligible_Inclusive(O) == {r \in O : r.timestamp <= timestamp}

\* WHERE _timestamp < %(timestamp)s
Eligible(O) == {r \in O : r.timestamp < timestamp}

\* max(version) of GROUP BY team_id, distinct_id
MaxVersionOf(O, k) == Max({r.version : r \in {x \in Eligible(O) : KeyOf(x) = k}})

\* argMax(person_id, version): the person_id of a row holding the maximum
\* version; the engine picks any of them when several rows hold it.
ArgMaxPersons(O, k) ==
  {r.person_id : r \in {x \in Eligible(O) :
                          KeyOf(x) = k /\ x.version = MaxVersionOf(O, k)}}

\* The results the aggregation SELECT of populate can return over the log O.
Aggregations(O) ==
  LET K == {KeyOf(r) : r \in Eligible(O)}
  IN  {{[team_id |-> k.team_id, distinct_id |-> k.distinct_id,
         person_id |-> f[k], version |-> MaxVersionOf(O, k)] : k \in K} :
       f \in {g \in [K -> PersonIds] : \A k \in K : g[k] \in ArgMaxPersons(O, k)}}

RECURSIVE BitXor(_, _)
BitXor(a, b) ==
  IF a = 0 THEN b
  ELSE IF b = 0 THEN a
  ELSE (((a % 2) + (b % 2)) % 2) + 2 * BitXor(a \div 2, b \div 2)

\* cityHash64(*) of one dictionary row, at the model's width.
cityHash(r) ==
  ((((r.team_id * 31 + r.distinct_id) * 31 + r.person_id) * 31 + r.version) * 7 + 3)
    % (2 ^ HashBits)

\* An aggregate that chains the values it is fed, so that their order shows.
RECURSIVE groupBitXor_Chained(_)
groupBitXor_Chained(s) ==
  IF s = <<>> THEN 0
  ELSE (31 * groupBitXor_Chained(Tail(s)) + Head(s)) % (2 ^ HashBits)

\* groupBitXor over the values s, in the order the aggregate is fed them.
RECURSIVE groupBitXor(_)
groupBitXor(s) ==
  IF s = <<>> THEN 0 ELSE BitXor(Head(s), groupBitXor(Tail(s)))

\* The orders in which the rows D can be read.
Enumerations(D) ==
  {s \in [1..Cardinality(D) -> D] : {s[i] : i \in 1..Cardinality(D)} = D}

\* SELECT cityHash64(*) AS row_checksum FROM dictionary ORDER BY team_id,
\* distinct_id: the row checksums, in the order of the rows s.
row_checksum(s) == [i \in DOMAIN s |-> cityHash(s[i])]

\* SELECT groupBitXor(row_checksum) AS table_checksum FROM (... ORDER BY
\* team_id, distinct_id) over the rows D of the dictionary.
table_checksum(D) ==
  LET ordered == CHOOSE s \in Enumerations(D) :
                   \A i, j \in DOMAIN s :
                     i < j => \/ s[i].team_id < s[j].team_id
                              \/ /\ s[i].team_id = s[j].team_id
                                 /\ s[i].distinct_id <= s[j].distinct_id
  IN  groupBitXor(row_checksum(ordered))

\* The contents a COMPLEX_KEY_HASHED dictionary can hold after loading the
\* rows R of its source table: one row per key.
DictionaryLoads(R) ==
  LET K == {KeyOf(r) : r \in R}
  IN  {{f[k] : k \in K} :
       f \in {g \in [K -> R] : \A k \in K : KeyOf(g[k]) = k}}

\* dictHas(name, (team_id, distinct_id))
dictHas(D, k) == \E d \in D : KeyOf(d) = k

\* dictGet / dictGetOrNull(name, attr, (team_id, distinct_id)), on a key it has
dictGet(D, k) == CHOOSE d \in D : KeyOf(d) = k

\* -------------------------------------------------------------------- state
VARIABLES
  hosts,            \* the cluster's hosts (its topology)
  overrides,        \* rows of person_distinct_id_overrides
  events,           \* rows of sharded_events, each on its shard
  log,              \* the blocks inserted into the snapshot table, in order
  table_exists,     \* per host: the snapshot table exists
  fetched,          \* per host: the blocks its replica of the snapshot table holds
  dictionary,       \* per host: the snapshot dictionary (exists, status, rows)
  mutations,        \* system.mutations: every mutation issued, in order
  pc,               \* the op of squash_person_overrides in progress
  phase,            \* ready: not dispatched; running; halted: the op raised
  task,             \* per host: the op's host operation (its position)
  ret,              \* per host: the value its host operation returned
  raised,           \* per host: the exception its host operation raised
  checksums,        \* load_and_verify_snapshot_dictionary's checksums
  shard_mutations,  \* output of start_person_id_update_mutations
  delete_mutation,  \* output of start_overrides_delete_mutations
  faults_left,      \* environment faults the behaviour still admits
  retries_left,     \* re-executions the behaviour still admits
  writes_left,      \* racing override writes the behaviour still admits
  completed,        \* history: the ops that returned, in order
  inserts,          \* history, per host: the blocks populate inserted there
  last_enqueue,     \* history, per table and shard: the last enqueue that returned
  batch_exports,    \* the BatchExport rows (with their destination's type), by id
  schedules,        \* the Temporal schedules, by id: none, active or paused
  backfills,        \* the BatchExportBackfill rows
  workflows,        \* the backfill workflows started in Temporal
  now,              \* the clock
  requests,         \* the calls of the batch-export service handled so far
  response          \* what the last call returned or raised, and the RPCs it made

topology == <<hosts>>
data == <<overrides, events>>
snapshot == <<log, table_exists, fetched>>
tasks == <<task, ret, raised>>
outputs == <<checksums, shard_mutations, delete_mutation>>
budget == <<faults_left, retries_left, writes_left>>
history == <<completed, inserts, last_enqueue>>
exports == <<batch_exports, schedules, backfills, workflows, now, requests, response>>

vars ==
  <<topology, data, snapshot, dictionary, mutations, pc, phase, tasks, outputs,
    budget, history, exports>>

cluster == <<topology, data, snapshot, dictionary, mutations>>

OpOrder ==
  <<"create_snapshot_table", "populate_snapshot_table",
    "wait_for_snapshot_table_replication", "create_snapshot_dictionary",
    "load_and_verify_snapshot_dictionary", "start_person_id_update_mutations",
    "wait_for_person_id_update_mutations", "start_overrides_delete_mutations",
    "wait_for_overrides_delete_mutations", "drop_snapshot_dictionary",
    "drop_snapshot_table", "done">>

OpIndex(op) == CHOOSE i \in DOMAIN OpOrder : OpOrder[i] = op

\* A job whose ops are wired past one another.
NextOp_Skipping(op) == OpOrder[IF OpIndex(op) + 2 <= Len(OpOrder) THEN OpIndex(op) + 2 ELSE Len(OpOrder)]

\* The op that takes op's output as its input.
NextOp(op) == OpOrder[OpIndex(op) + 1]

EVENTS_DATA_TABLE == "sharded_events"
PERSON_DISTINCT_ID_OVERRIDES_TABLE == "person_distinct_id_overrides"


\* The run identifiers (dagster run ids, as uuid.UUID) names are derived from.
RunIds == 0..MaxRunId

\* uuid.UUID.hex: the identifier's hex digits, most significant first, at
\* the model's width.
hex(id) == [i \in 1..HexDigits |-> (id \div (16 ^ (HexDigits - i))) % 16]

\* PersonOverridesSnapshotTable.name
name(id) == <<"person_distinct_id_overrides_snapshot_", hex(id)>>

\* PersonOverridesSnapshotDictionary.name
dictionary_name(id) == <<name(id), "_dictionary">>

\* The identifier of the run the model follows, and the identifiers of the
\* other runs that have left mutations on the cluster: its neighbours in
\* the last digit and in the first.
run_id == 18
OtherRunIds == {id \in RunIds : id \in {run_id - 16, run_id - 1, run_id + 1}}

\* PersonOverridesSnapshotDictionary.qualified_name, as the text that is
\* put into a command and into the pattern of a LIKE: database, ".",
\* "person_distinct_id_overrides_snapshot", "_", the hex digits, "_",
\* "dictionary".
qualified_name(id) ==
  LET digits == <<"0", "1", "2", "3", "4", "5", "6", "7",
                  "8", "9", "a", "b", "c", "d", "e", "f">>
  IN  <<"CLICKHOUSE_DATABASE", ".", "person_distinct_id_overrides_snapshot", "_">>
        \o [i \in 1..HexDigits |-> digits[hex(id)[i] + 1]] \o <<"_", "dictionary">>

\* The command column of system.mutations for the ALTER of a run: the kind,
\* the text up to the dictionary's name, the name, and the rest.
Command(command_kind, id) ==
  <<command_kind, IF command_kind = "UPDATE" THEN "person_id = dictGet(" ELSE "WHERE isNotNull(dictGetOrNull(">>
    \o qualified_name(id) \o <<", ...">>

\* startsWith(command, command_kind)
startsWith(command, command_kind) == command # <<>> /\ Head(command) = command_kind

\* command like concat('%', name, '%'): the pattern occurs somewhere in
\* the command, an underscore of the pattern standing for any one piece.
like(command, pattern) ==
  \E k \in 0..(Len(command) - Len(pattern)) :
    \A i \in 1..Len(pattern) : pattern[i] = "_" \/ command[k + i] = pattern[i]

\* Python's None: the value of an op or call that returns nothing.
None == -1

NoDictionary == [exists |-> FALSE, status |-> "NOT_LOADED", rows |-> {}]

\* The rows host h's replica of the snapshot table holds.
TableRows(h) == UNION {log[i] : i \in fetched[h]}

\* system.replicas.queue_size of the snapshot table on host h.
queue_size(h) == Len(log) - Cardinality(fetched[h])

\* A run on a small cluster that admits faults, retries and racing writes.
FaultyRun ==
  /\ hosts \in {T \in Topologies : Cardinality(T) <= MaxFaultyHosts}
  /\ overrides \in Scenarios
  /\ faults_left = MaxFaults
  /\ retries_left = MaxRetries
  /\ writes_left = MaxWrites

\* A fault-free run on a cluster of up to MaxHosts hosts.
WideRun ==
  /\ hosts \in {T \in Topologies : Cardinality(T) > MaxFaultyHosts}
  /\ overrides \in Scenarios
  /\ faults_left = 0
  /\ retries_left = 0
  /\ writes_left = 0

\* A fault-free run on one host, over any override log.
DataRun ==
  /\ hosts \in {T \in Topologies : Cardinality(T) = 1}
  /\ overrides \in {O \in SUBSET OverrideRows : Cardinality(O) <= MaxOverrides} \ Scenarios
  /\ faults_left = 0
  /\ retries_left = 0
  /\ writes_left = 0

\* The ids a caller can name: BatchExport 1 has a row, 2 has none.
BatchExportIds == {1, 2}
ExportTeamIds == {1, 2}

\* BatchExportDestination.Destination, as far as backfill_export tells them apart.
Destinations == {"S3", "BigQuery", "HTTP", "NoOp"}

\* No BatchExport row of this id.
DoesNotExist ==
  [exists |-> FALSE, team_id |-> None, paused |-> FALSE, last_paused_at |-> None,
   last_updated_at |-> None, deleted |-> FALSE, destination |-> "none"]

NoResponse ==
  [handler |-> "none", batch_export_id |-> None, returned |-> "none", raised |-> "none",
   rpcs |-> <<>>, workflow_id |-> <<>>, logged |-> {}]

\* The batch exports during a run of squash_person_overrides: none.
NoBatchExports ==
  /\ batch_exports = [id \in BatchExportIds |-> DoesNotExist]
  /\ schedules = [id \in BatchExportIds |-> "none"]
  /\ backfills = {}
  /\ workflows = {}
  /\ now = 0
  /\ requests = 0
  /\ response = NoResponse

Init ==
  /\ FaultyRun \/ WideRun \/ DataRun
  /\ NoBatchExports
  /\ events = {[shard |-> s, uuid |-> k.distinct_id, team_id |-> k.team_id,
                 distinct_id |-> k.distinct_id, person_id |-> 7] :
                 s \in ShardsOf(hosts), k \in Keys}
  /\ log = <<>>
  /\ table_exists = [h \in hosts |-> FALSE]
  /\ fetched = [h \in hosts |-> {}]
  /\ dictionary = [h \in hosts |-> NoDictionary]
  /\ mutations = <<>>
  /\ pc = "create_snapshot_table"
  /\ phase = "ready"
  /\ task = [h \in hosts |-> "none"]
  /\ ret = [h \in hosts |-> None]
  /\ raised = [h \in hosts |-> "none"]
  /\ checksums = [h \in hosts |-> None]
  /\ shard_mutations = [s \in ShardsOf(hosts) |-> None]
  /\ delete_mutation = None
  /\ completed = <<>>
  /\ inserts = [h \in hosts |-> 0]
  /\ last_enqueue = {}

\* ------------------------------------------------- the cluster's fan-outs
\* cluster.map_all_hosts(fn): one task per host.
map_all_hosts == {hosts}

\* cluster.any_host(fn): one task, on a host the cluster picks.
any_host == {{h} : h \in hosts}

\* cluster.map_one_host_per_shard(fn): one task per shard, on a replica the
\* cluster picks.
map_one_host_per_shard ==
  {{f[s] : s \in ShardsOf(hosts)} :
     f \in {g \in [ShardsOf(hosts) -> hosts] :
              \A s \in ShardsOf(hosts) : g[s].shard_num = s}}

\* cluster.map_all_hosts_in_shard(shard, fn), merged over the shards S.
map_all_hosts_in_shards(S) == {UNION {HostsInShard(hosts, s) : s \in S}}

\* Submitting a fan-out: one pending task per target host.
Dispatch(targets) ==
  /\ phase = "ready"
  /\ \E T \in targets :
       task' = [h \in hosts |-> IF h \in T THEN "pending" ELSE "none"]
  /\ ret' = [h \in hosts |-> None]
  /\ raised' = [h \in hosts |-> "none"]
  /\ phase' = "running"
  /\ UNCHANGED <<pc, completed>>

\* .result(): every task has completed or raised.
Completed == phase = "running" /\ \A h \in hosts : task[h] \in {"none", "ok", "failed"}

\* .result() returns: no task raised.
Succeeded == Completed /\ \A h \in hosts : task[h] # "failed"

\* The op returns its output: the next op runs.
Return ==
  /\ pc' = NextOp(pc)
  /\ phase' = "ready"
  /\ completed' = Append(completed, pc)
  /\ UNCHANGED tasks

\* An assert of the op's own body fails, or .result() raises: the op raises.
Raise ==
  /\ phase' = "halted"
  /\ UNCHANGED <<pc, tasks, completed>>

\* Host h's operation of op stands at position at.
Running(op, h, at) == pc = op /\ phase = "running" /\ task[h] = at

\* Host h's operation moves on to its next statement.
Goto(h, at) ==
  /\ task' = [task EXCEPT ![h] = at]
  /\ UNCHANGED <<ret, raised>>

\* Host h's operation returns value.
Returns(h, value) ==
  /\ task' = [task EXCEPT ![h] = "ok"]
  /\ ret' = [ret EXCEPT ![h] = value]
  /\ UNCHANGED raised

\* Host h's operation raises exception.
Raises(h, exception) ==
  /\ task' = [task EXCEPT ![h] = "failed"]
  /\ raised' = [raised EXCEPT ![h] = exception]
  /\ UNCHANGED ret

orchestration == <<pc, phase, outputs, completed>>

\* ------------------------------------------- PersonOverridesSnapshotTable
\* A CREATE TABLE without IF NOT EXISTS: it raises on a table that exists.
table_create_NotIdempotent(h) ==
  /\ Running("create_snapshot_table", h, "pending")
  /\ IF table_exists[h]
     THEN Raises(h, "Exception") /\ UNCHANGED table_exists
     ELSE table_exists' = [table_exists EXCEPT ![h] = TRUE] /\ Returns(h, None)
  /\ UNCHANGED <<exports, topology, data, log, fetched, dictionary, mutations, orchestration,
                 budget, inserts, last_enqueue>>

\* table.create: CREATE TABLE IF NOT EXISTS ... ReplicatedReplacingMergeTree
table_create(h) ==
  /\ Running("create_snapshot_table", h, "pending")
  /\ table_exists' = [table_exists EXCEPT ![h] = TRUE]
  /\ Returns(h, None)
  /\ UNCHANGED <<exports, topology, data, log, fetched, dictionary, mutations, orchestration,
                 budget, inserts, last_enqueue>>

\* populate without its assertion.
CountIsZero_Unchecked(h) == h \in hosts

\* [[count]] = SELECT count() FROM the snapshot table; assert count == 0
CountIsZero(h) == Cardinality(TableRows(h)) = 0

\* The INSERT ... SELECT of populate on host h, returning the block agg: an
\* empty result inserts no block.
InsertSelect(h, agg) ==
  IF agg = {}
  THEN UNCHANGED <<log, fetched, inserts>>
  ELSE /\ log' = Append(log, agg)
       /\ fetched' = [fetched EXCEPT ![h] = @ \cup {Len(log) + 1}]
       /\ inserts' = [inserts EXCEPT ![h] = @ + 1]

\* table.populate: assert count() = 0, then INSERT ... SELECT ... GROUP BY.
\* lost: the server ran the INSERT and the connection broke before the reply.
populate(h) ==
  /\ Running("populate_snapshot_table", h, "pending")
  /\ IF ~CountIsZero(h)
     THEN /\ Raises(h, "AssertionError")
          /\ UNCHANGED <<log, fetched, inserts, faults_left>>
     ELSE \E agg \in Aggregations(overrides), lost \in BOOLEAN :
            /\ lost => faults_left > 0
            /\ InsertSelect(h, agg)
            /\ faults_left' = IF lost THEN faults_left - 1 ELSE faults_left
            /\ IF lost THEN Raises(h, "ConnectionError") ELSE Returns(h, None)
  /\ UNCHANGED <<exports, topology, data, table_exists, dictionary, mutations, orchestration,
                 retries_left, writes_left, last_enqueue>>

\* table.sync, first statement: SYSTEM SYNC REPLICA ... STRICT returns once
\* the replica has fetched every block of the log.
sync_replica(h) ==
  /\ Running("wait_for_snapshot_table_replication", h, "pending")
  /\ fetched' = [fetched EXCEPT ![h] = 1..Len(log)]
  /\ Goto(h, "synced")
  /\ UNCHANGED <<exports, topology, data, log, table_exists, dictionary, mutations,
                 orchestration, budget, inserts, last_enqueue>>

\* sync without its assertion.
QueueIsEmpty_Unchecked(h) == h \in hosts

\* [[queue_size]] = SELECT queue_size FROM system.replicas; assert queue_size == 0
QueueIsEmpty(h) == queue_size(h) = 0

\* table.sync, second statement.
sync_queue_size(h) ==
  /\ Running("wait_for_snapshot_table_replication", h, "synced")
  /\ IF QueueIsEmpty(h) THEN Returns(h, None) ELSE Raises(h, "AssertionError")
  /\ UNCHANGED <<exports, cluster, orchestration, budget, inserts, last_enqueue>>

\* table.drop: DROP TABLE IF EXISTS ... SYNC
table_drop(h) ==
  /\ Running("drop_snapshot_table", h, "pending")
  /\ table_exists' = [table_exists EXCEPT ![h] = FALSE]
  /\ fetched' = [fetched EXCEPT ![h] = {}]
  /\ Returns(h, None)
  /\ UNCHANGED <<exports, topology, data, log, dictionary, mutations, orchestration,
                 budget, inserts, last_enqueue>>

\* -------------------------------------- PersonOverridesSnapshotDictionary
\* dictionary.create: CREATE DICTIONARY IF NOT EXISTS ... LIFETIME(0)
dictionary_create(h) ==
  /\ Running("create_snapshot_dictionary", h, "pending")
  /\ dictionary' = [dictionary EXCEPT ![h] =
                      IF @.exists THEN @ ELSE [@ EXCEPT !.exists = TRUE]]
  /\ Returns(h, None)
  /\ UNCHANGED <<exports, topology, data, snapshot, mutations, orchestration,
                 budget, inserts, last_enqueue>>

\* The status SYSTEM RELOAD DICTIONARY leaves a dictionary of status st in.
Reloading(st) ==
  CASE st = "NOT_LOADED" -> "LOADING"
    [] st = "LOADED" -> "LOADED_AND_RELOADING"
    [] st = "FAILED" -> "FAILED_AND_RELOADING"
    [] OTHER -> st

InProgress == {"LOADING", "FAILED_AND_RELOADING", "LOADED_AND_RELOADING"}

\* dictionary.load, first statement: SYSTEM RELOAD DICTIONARY (asynchronous).
load_reload(h) ==
  /\ Running("load_and_verify_snapshot_dictionary", h, "pending")
  /\ dictionary' = [dictionary EXCEPT ![h].status = Reloading(@)]
  /\ Goto(h, "reloading")
  /\ UNCHANGED <<exports, topology, data, snapshot, mutations, orchestration,
                 budget, inserts, last_enqueue>>

\* SELECT status, last_exception FROM system.dictionaries WHERE name = ...
\* on host h: one row for a dictionary that exists, none otherwise.
SystemDictionaries(h) ==
  IF dictionary[h].exists THEN {[status |-> dictionary[h].status]} ELSE {}

\* An __is_loaded that takes a dictionary whose load failed for a loaded one.
is_loaded_FailedIsLoaded(results) ==
  IF results = {} THEN "Exception: dictionary does not exist"
  ELSE LET st == (CHOOSE r \in results : TRUE).status IN
       CASE st \in {"LOADED", "FAILED"} -> "true"
         [] st \in InProgress -> "false"
         [] OTHER -> "Exception: unexpected status"

\* __is_loaded over the rows of its query: True on LOADED, False on a status
\* in progress; it raises on no row, on FAILED (with the dictionary's
\* last_exception) and on any other status.
is_loaded(results) ==
  IF results = {} THEN "Exception: dictionary does not exist"
  ELSE LET st == (CHOOSE r \in results : TRUE).status IN
       CASE st = "LOADED" -> "true"
         [] st \in InProgress -> "false"
         [] st = "FAILED" -> "Exception: failed to load: last_exception"
         [] OTHER -> "Exception: unexpected status"

\* dictionary.load, the poll that ends the loop and the checksum query after it.
load_checksum(h) ==
  /\ Running("load_and_verify_snapshot_dictionary", h, "reloading")
  /\ is_loaded(SystemDictionaries(h)) # "false"
  /\ IF is_loaded(SystemDictionaries(h)) = "true"
     THEN Returns(h, table_checksum(dictionary[h].rows))
     ELSE Raises(h, is_loaded(SystemDictionaries(h)))
  /\ UNCHANGED <<exports, cluster, orchestration, budget, inserts, last_enqueue>>

\* dictionary.drop: DROP DICTIONARY IF EXISTS ... SYNC
dictionary_drop(h) ==
  /\ Running("drop_snapshot_dictionary", h, "pending")
  /\ dictionary' = [dictionary EXCEPT ![h] = NoDictionary]
  /\ Returns(h, None)
  /\ UNCHANGED <<exports, topology, data, snapshot, mutations, orchestration,
                 budget, inserts, last_enqueue>>

\* ------------------------------------------------------------- mutations
\* A row of system.mutations is
\*   [table, replicas, mutation_id, command_kind, command, is_killed, seen,
\*    applied, is_done]
\* replicas: the hosts that replicate the table the command was issued on
\* (the issuing host's shard for sharded_events, every host for the override
\* log); mutation_id: its number in that replication log; seen: the hosts
\* whose system.mutations lists it; applied: a replica has run its command;
\* is_done: the hosts that report is_done = 1.
ReplicasOf(h, table) ==
  IF table = EVENTS_DATA_TABLE THEN HostsInShard(hosts, h.shard_num) ELSE hosts

\* The rows of system.mutations host h sees for table.
SystemMutations(h, table) ==
  {i \in DOMAIN mutations : mutations[i].table = table /\ h \in mutations[i].seen}

\* A lookup that resolves several matches to the newest one (ORDER BY
\* create_time DESC, first row) instead of asserting there is one.
find_existing_mutation_Latest(h, table, command_kind) ==
  LET found == {i \in SystemMutations(h, table) :
                  /\ startsWith(mutations[i].command, command_kind)
                  /\ like(mutations[i].command, qualified_name(run_id))
                  /\ ~mutations[i].is_killed}
  IN  {i \in found : \A j \in found : j <= i}

\* A lookup without the NOT is_killed filter.
find_existing_mutation_WithKilled(h, table, command_kind) ==
  {i \in SystemMutations(h, table) :
     /\ startsWith(mutations[i].command, command_kind)
     /\ like(mutations[i].command, qualified_name(run_id))}

\* A lookup without the LIKE on the dictionary's name.
find_existing_mutation_AnyName(h, table, command_kind) ==
  {i \in SystemMutations(h, table) :
     startsWith(mutations[i].command, command_kind) /\ ~mutations[i].is_killed}

\* The result set of __find_existing_mutation's SELECT on host h: the rows
\* of the table whose command starts with command_kind and contains the
\* qualified name of the run's dictionary, and are not killed.
find_existing_mutation(h, table, command_kind) ==
  {i \in SystemMutations(h, table) :
     /\ startsWith(mutations[i].command, command_kind)
     /\ like(mutations[i].command, qualified_name(run_id))
     /\ ~mutations[i].is_killed}

\* client.execute("ALTER TABLE table command_kind ..."): the server appends
\* the mutation to the table's replication log and to host h's system.mutations.
Alter(h, table, command_kind) ==
  mutations' = Append(mutations,
    [table |-> table, replicas |-> ReplicasOf(h, table),
     mutation_id |-> 1 + Cardinality({i \in DOMAIN mutations :
                          mutations[i].table = table /\ h \in mutations[i].replicas}),
     command_kind |-> command_kind, command |-> Command(command_kind, run_id),
     is_killed |-> FALSE, seen |-> {h}, applied |-> FALSE, is_done |-> {}])

\* The enqueue that returned last: who called, on which table, what it got,
\* how many mutations had been issued by then, and whether it repeats the
\* enqueue before it (same host, same table, same result, no ALTER between).
Enqueued(h, table, i) ==
  {[host |-> h, table |-> table, mutation_id |-> mutations[i].mutation_id,
    stamp |-> Len(mutations),
    again |-> \E e \in last_enqueue :
                /\ e.host = h /\ e.table = table
                /\ e.mutation_id = mutations[i].mutation_id
                /\ e.stamp = Len(mutations)]}

\* An enqueue that issues its ALTER without looking for an existing mutation.
Enqueue_NoLookup(h, table, command_kind) ==
  /\ task[h] = "pending"
  /\ Alter(h, table, command_kind)
  /\ Goto(h, "issued")
  /\ UNCHANGED last_enqueue

\* enqueue_*: the first lookup, and the ALTER when it finds nothing.
Enqueue(h, table, command_kind) ==
  LET results == find_existing_mutation(h, table, command_kind) IN
  /\ task[h] = "pending"
  /\ IF results = {}
     THEN /\ Alter(h, table, command_kind)
          /\ Goto(h, "issued")
          /\ UNCHANGED last_enqueue
     ELSE /\ UNCHANGED mutations
          /\ IF Cardinality(results) = 1
             THEN \E i \in results :
                    /\ Returns(h, mutations[i].mutation_id)
                    /\ last_enqueue' = Enqueued(h, table, i)
             ELSE Raises(h, "AssertionError") /\ UNCHANGED last_enqueue

\* A second lookup without the assertion: finding nothing, it returns a
\* handle without an id.
Requery_Unasserted(h, table, command_kind) ==
  LET results == find_existing_mutation(h, table, command_kind) IN
  /\ task[h] = "issued"
  /\ UNCHANGED mutations
  /\ IF Cardinality(results) = 1
     THEN \E i \in results :
            /\ Returns(h, mutations[i].mutation_id)
            /\ last_enqueue' = Enqueued(h, table, i)
     ELSE IF results = {}
     THEN Returns(h, None) /\ UNCHANGED last_enqueue
     ELSE Raises(h, "AssertionError") /\ UNCHANGED last_enqueue

\* enqueue_*: the lookup after the ALTER; assert mutation is not None.
Requery(h, table, command_kind) ==
  LET results == find_existing_mutation(h, table, command_kind) IN
  /\ task[h] = "issued"
  /\ UNCHANGED mutations
  /\ IF Cardinality(results) = 1
     THEN \E i \in results :
            /\ Returns(h, mutations[i].mutation_id)
            /\ last_enqueue' = Enqueued(h, table, i)
     ELSE Raises(h, "AssertionError") /\ UNCHANGED last_enqueue

enqueue_person_id_update_mutation(h) ==
  /\ pc = "start_person_id_update_mutations" /\ phase = "running"
  /\ \/ Enqueue(h, EVENTS_DATA_TABLE, "UPDATE")
     \/ Requery(h, EVENTS_DATA_TABLE, "UPDATE")
  /\ UNCHANGED <<exports, topology, data, snapshot, dictionary, orchestration, budget, inserts>>

enqueue_overrides_delete_mutation(h) ==
  /\ pc = "start_overrides_delete_mutations" /\ phase = "running"
  /\ \/ Enqueue(h, PERSON_DISTINCT_ID_OVERRIDES_TABLE, "DELETE")
     \/ Requery(h, PERSON_DISTINCT_ID_OVERRIDES_TABLE, "DELETE")
  /\ UNCHANGED <<exports, topology, data, snapshot, dictionary, orchestration, budget, inserts>>

\* Mutation(table, mutation_id)
Mutation(table, mutation_id) == [table |-> table, mutation_id |-> mutation_id]

\* An is_done that reports every mutation done.
is_done_Always(h, mutation) == IF h \in hosts /\ mutation.mutation_id # None THEN "true" ELSE "raise"

\* An is_done that reports a mutation without a row as not done.
is_done_NoRowNotDone(h, mutation) ==
  LET results == {i \in SystemMutations(h, mutation.table) :
                    mutations[i].mutation_id = mutation.mutation_id}
  IN  IF \E i \in results : h \in mutations[i].is_done THEN "true" ELSE "false"

\* Mutation.is_done on host h: [[is_done]] = SELECT is_done FROM
\* system.mutations WHERE table = ... AND mutation_id = ...; the unpacking
\* raises unless the result is one row.
is_done(h, mutation) ==
  LET results == {i \in SystemMutations(h, mutation.table) :
                    mutations[i].mutation_id = mutation.mutation_id}
  IN  IF Cardinality(results) # 1 THEN "raise"
      ELSE IF \E i \in results : h \in mutations[i].is_done THEN "true" ELSE "false"

\* A wait that polls once: it returns after its first poll, done or not.
wait_PollsOnce(h, mutation) ==
  /\ task[h] = "pending"
  /\ IF is_done(h, mutation) # "raise" THEN Returns(h, None) ELSE Raises(h, "ValueError")
  /\ UNCHANGED <<exports, cluster, orchestration, budget, inserts, last_enqueue>>

\* Mutation.wait on host h: the poll of is_done that ends the loop.
wait(h, mutation) ==
  /\ task[h] = "pending"
  /\ is_done(h, mutation) # "false"
  /\ IF is_done(h, mutation) = "true" THEN Returns(h, None) ELSE Raises(h, "ValueError")
  /\ UNCHANGED <<exports, cluster, orchestration, budget, inserts, last_enqueue>>

\* The UPDATE without its WHERE: dictGet returns the attribute's default
\* (the zero UUID) for a key the dictionary lacks.
UpdatePersonId_NoWhere(E, R, D) ==
  {IF e.shard \in ShardsOf(R)
   THEN [e EXCEPT !.person_id = IF dictHas(D, KeyOf(e))
                                THEN dictGet(D, KeyOf(e)).person_id ELSE 0]
   ELSE e : e \in E}

\* UPDATE person_id = dictGet(name, 'person_id', (team_id, distinct_id))
\* WHERE dictHas(name, (team_id, distinct_id)), over the events E of the
\* shard of replicas R, with the dictionary contents D.
UpdatePersonId(E, R, D) ==
  {IF e.shard \in ShardsOf(R) /\ dictHas(D, KeyOf(e))
   THEN [e EXCEPT !.person_id = dictGet(D, KeyOf(e)).person_id]
   ELSE e : e \in E}

\* The DELETE with a strict comparison of versions.
DeleteWhere_Strict(r, D) ==
  dictHas(D, KeyOf(r)) /\ dictGet(D, KeyOf(r)).version > r.version

\* The DELETE of every row whose key the snapshot has.
DeleteWhere_AnyVersion(r, D) == dictHas(D, KeyOf(r))

\* DELETE WHERE isNotNull(dictGetOrNull(name, 'version', (team_id,
\* distinct_id)) as snapshot_version) AND snapshot_version >= version
DeleteWhere(r, D) == dictHas(D, KeyOf(r)) /\ dictGet(D, KeyOf(r)).version >= r.version

DeleteOverrides(O, D) == {r \in O : ~DeleteWhere(r, D)}

\* ------------------------------------------------ the ClickHouse servers
\* Host h's replica of the snapshot table fetches a block of the log.
Replicate(h) ==
  /\ table_exists[h]
  /\ \E i \in (1..Len(log)) \ fetched[h] :
       fetched' = [fetched EXCEPT ![h] = @ \cup {i}]
  /\ UNCHANGED <<exports, topology, data, log, table_exists, dictionary, mutations, pc, phase,
                 tasks, outputs, budget, history>>

\* Host h finishes the load SYSTEM RELOAD DICTIONARY started, from the rows
\* its replica of the snapshot table holds.
DictionaryLoaded(h) ==
  /\ dictionary[h].exists /\ table_exists[h]
  /\ dictionary[h].status \in InProgress
  /\ \E D \in DictionaryLoads(TableRows(h)) :
       dictionary' = [dictionary EXCEPT ![h] = [@ EXCEPT !.status = "LOADED", !.rows = D]]
  /\ UNCHANGED <<exports, topology, data, snapshot, mutations, pc, phase, tasks, outputs,
                 budget, history>>

\* Host h pulls mutation i from the replication log of its table.
MutationReplicated(i, h) ==
  /\ h \in mutations[i].replicas \ mutations[i].seen
  /\ mutations' = [mutations EXCEPT ![i].seen = @ \cup {h}]
  /\ UNCHANGED <<exports, topology, data, snapshot, dictionary, pc, phase, tasks, outputs,
                 budget, history>>

\* Replica h runs the command of mutation i over the rows its table holds
\* now, reading its own dictionary; the other replicas fetch the result.
MutationApplied(i, h) ==
  LET m == mutations[i] IN
  /\ h \in m.seen /\ ~m.applied /\ ~m.is_killed
  /\ dictionary[h].exists /\ dictionary[h].status = "LOADED"
  /\ IF m.command_kind = "UPDATE"
     THEN /\ events' = UpdatePersonId(events, m.replicas, dictionary[h].rows)
          /\ UNCHANGED overrides
     ELSE /\ overrides' = DeleteOverrides(overrides, dictionary[h].rows)
          /\ UNCHANGED events
  /\ mutations' = [mutations EXCEPT ![i].applied = TRUE]
  /\ UNCHANGED <<exports, topology, snapshot, dictionary, pc, phase, tasks, outputs,
                 budget, history>>

\* Host h reports mutation i done.
MutationDone(i, h) ==
  LET m == mutations[i] IN
  /\ m.applied /\ ~m.is_killed /\ h \in m.seen \ m.is_done
  /\ mutations' = [mutations EXCEPT ![i].is_done = @ \cup {h}]
  /\ UNCHANGED <<exports, topology, data, snapshot, dictionary, pc, phase, tasks, outputs,
                 budget, history>>

\* ------------------------------------------------------- the environment
\* Ingestion writes an override while the job runs.
WriteOverride(r) ==
  /\ writes_left > 0 /\ r \notin overrides
  /\ overrides' = overrides \cup {r}
  /\ writes_left' = writes_left - 1
  /\ UNCHANGED <<exports, topology, events, snapshot, dictionary, mutations, pc, phase, tasks,
                 outputs, faults_left, retries_left, history>>

\* The connection to host h breaks before its operation completes.
HostFails(h) ==
  /\ faults_left > 0 /\ phase = "running"
  /\ task[h] \in {"pending", "synced", "reloading", "issued"}
  /\ Raises(h, "ConnectionError")
  /\ faults_left' = faults_left - 1
  /\ UNCHANGED <<exports, cluster, pc, phase, outputs, retries_left, writes_left, history>>

\* Somebody else inserts row r into the snapshot table, through host h.
ForeignInsert(h, r) ==
  /\ faults_left > 0 /\ table_exists[h]
  /\ log' = Append(log, {r})
  /\ fetched' = [fetched EXCEPT ![h] = @ \cup {Len(log) + 1}]
  /\ faults_left' = faults_left - 1
  /\ UNCHANGED <<exports, topology, data, table_exists, dictionary, mutations, pc, phase, tasks,
                 outputs, retries_left, writes_left, history>>

\* The load of the dictionary fails on host h.
DictionaryLoadFails(h) ==
  /\ faults_left > 0
  /\ dictionary[h].exists /\ dictionary[h].status \in InProgress
  /\ dictionary' = [dictionary EXCEPT ![h].status = "FAILED"]
  /\ faults_left' = faults_left - 1
  /\ UNCHANGED <<exports, topology, data, snapshot, mutations, pc, phase, tasks, outputs,
                 retries_left, writes_left, history>>

\* An operator runs KILL MUTATION on mutation i.
KillMutation(i) ==
  /\ faults_left > 0
  /\ ~mutations[i].is_killed /\ mutations[i].is_done # mutations[i].replicas
  /\ mutations' = [mutations EXCEPT ![i].is_killed = TRUE]
  /\ faults_left' = faults_left - 1
  /\ last_enqueue' = {e \in last_enqueue :
                        ~(e.table = mutations[i].table /\ e.host \in mutations[i].replicas
                          /\ e.mutation_id = mutations[i].mutation_id)}
  /\ UNCHANGED <<exports, topology, data, snapshot, dictionary, pc, phase, tasks, outputs,
                 retries_left, writes_left, completed, inserts>>

\* The op that raised is executed again (a Dagster retry or re-execution).
Retry ==
  /\ retries_left > 0 /\ phase = "halted"
  /\ phase' = "ready"
  /\ retries_left' = retries_left - 1
  /\ UNCHANGED <<exports, cluster, pc, tasks, outputs, faults_left, writes_left, history>>

\* ---------------------------------------------------------------- the ops
\* cluster.map_all_hosts(table.create).result()
create_snapshot_table ==
  /\ pc = "create_snapshot_table"
  /\ \/ Dispatch(map_all_hosts)
     \/ Succeeded /\ Return
  /\ UNCHANGED <<exports, cluster, outputs, budget, inserts, last_enqueue>>

\* cluster.any_host(table.populate).result()
populate_snapshot_table ==
  /\ pc = "populate_snapshot_table"
  /\ \/ Dispatch(any_host)
     \/ Succeeded /\ Return
  /\ UNCHANGED <<exports, cluster, outputs, budget, inserts, last_enqueue>>

\* A wait_for_snapshot_table_replication that does not join its fan-out.
wait_for_snapshot_table_replication_Unjoined ==
  /\ pc = "wait_for_snapshot_table_replication"
  /\ \/ Dispatch(map_all_hosts)
     \/ Completed /\ Return
  /\ UNCHANGED <<exports, cluster, outputs, budget, inserts, last_enqueue>>

\* The barrier on a single host: cluster.any_host(table.sync).result()
wait_for_snapshot_table_replication_OneHost ==
  /\ pc = "wait_for_snapshot_table_replication"
  /\ \/ Dispatch(any_host)
     \/ Succeeded /\ Return
  /\ UNCHANGED <<exports, cluster, outputs, budget, inserts, last_enqueue>>

\* cluster.map_all_hosts(table.sync).result()
wait_for_snapshot_table_replication ==
  /\ pc = "wait_for_snapshot_table_replication"
  /\ \/ Dispatch(map_all_hosts)
     \/ Succeeded /\ Return
  /\ UNCHANGED <<exports, cluster, outputs, budget, inserts, last_enqueue>>

\* cluster.map_all_hosts(dictionary.create).result()
create_snapshot_dictionary ==
  /\ pc = "create_snapshot_dictionary"
  /\ \/ Dispatch(map_all_hosts)
     \/ Succeeded /\ Return
  /\ UNCHANGED <<exports, cluster, outputs, budget, inserts, last_enqueue>>

\* load-and-verify without its assertion.
ChecksumsAgree_Unchecked(c) == DOMAIN c = hosts

\* assert len(set(checksums.values())) == 1
ChecksumsAgree(c) == Cardinality({c[h] : h \in DOMAIN c}) = 1

\* checksums = cluster.map_all_hosts(dictionary.load).result(), then the assert.
load_and_verify_snapshot_dictionary ==
  /\ pc = "load_and_verify_snapshot_dictionary"
  /\ \/ Dispatch(map_all_hosts) /\ UNCHANGED checksums
     \/ /\ Succeeded
        /\ checksums' = [h \in hosts |-> ret[h]]
        /\ IF ChecksumsAgree(checksums') THEN Return ELSE Raise
  /\ UNCHANGED <<exports, cluster, shard_mutations, delete_mutation, budget, inserts, last_enqueue>>

\* shard_mutations = {host.shard_num: mutation for host, mutation in
\* cluster.map_one_host_per_shard(enqueue_person_id_update_mutation).result().items()}
start_person_id_update_mutations ==
  /\ pc = "start_person_id_update_mutations"
  /\ \/ Dispatch(map_one_host_per_shard) /\ UNCHANGED shard_mutations
     \/ /\ Succeeded
        /\ shard_mutations' =
             [s \in ShardsOf(hosts) |->
                ret[CHOOSE h \in hosts : h.shard_num = s /\ task[h] = "ok"]]
        /\ Return
  /\ UNCHANGED <<exports, cluster, checksums, delete_mutation, budget, inserts, last_enqueue>>

\* The op waiting on the replicas of one shard of the mapping only.
wait_for_person_id_update_mutations_OneShard ==
  /\ pc = "wait_for_person_id_update_mutations"
  /\ \/ Dispatch({HostsInShard(hosts, s) : s \in DOMAIN shard_mutations})
     \/ Succeeded /\ Return
  /\ UNCHANGED <<exports, cluster, outputs, budget, inserts, last_enqueue>>

\* The op without its .result(): it returns once the fan-outs are submitted.
wait_for_person_id_update_mutations_NoResult ==
  /\ pc = "wait_for_person_id_update_mutations"
  /\ \/ Dispatch(map_all_hosts_in_shards(DOMAIN shard_mutations))
     \/ phase = "running" /\ Return
  /\ UNCHANGED <<exports, cluster, outputs, budget, inserts, last_enqueue>>

\* reduce(merge, [cluster.map_all_hosts_in_shard(shard, mutation.wait) for
\* shard, mutation in shard_mutations.items()]).result(): the list is built,
\* one fan-out submitted per shard, before the merged handle is awaited.
wait_for_person_id_update_mutations ==
  /\ pc = "wait_for_person_id_update_mutations"
  /\ \/ Dispatch(map_all_hosts_in_shards(DOMAIN shard_mutations))
     \/ Succeeded /\ Return
  /\ UNCHANGED <<exports, cluster, outputs, budget, inserts, last_enqueue>>

\* mutation = cluster.any_host(enqueue_overrides_delete_mutation).result()
start_overrides_delete_mutations ==
  /\ pc = "start_overrides_delete_mutations"
  /\ \/ Dispatch(any_host) /\ UNCHANGED delete_mutation
     \/ /\ Succeeded
        /\ delete_mutation' = ret[CHOOSE h \in hosts : task[h] = "ok"]
        /\ Return
  /\ UNCHANGED <<exports, cluster, checksums, shard_mutations, budget, inserts, last_enqueue>>

\* cluster.map_all_hosts(mutation.wait).result()
wait_for_overrides_delete_mutations ==
  /\ pc = "wait_for_overrides_delete_mutations"
  /\ \/ Dispatch(map_all_hosts)
     \/ Succeeded /\ Return
  /\ UNCHANGED <<exports, cluster, outputs, budget, inserts, last_enqueue>>

\* cluster.map_all_hosts(dictionary.drop).result()
drop_snapshot_dictionary ==
  /\ pc = "drop_snapshot_dictionary"
  /\ \/ Dispatch(map_all_hosts)
     \/ Succeeded /\ Return
  /\ UNCHANGED <<exports, cluster, outputs, budget, inserts, last_enqueue>>

\* A drop of the table on one host of the cluster only.
drop_snapshot_table_OneHost ==
  /\ pc = "drop_snapshot_table"
  /\ \/ Dispatch(any_host)
     \/ Succeeded /\ Return
  /\ UNCHANGED <<exports, cluster, outputs, budget, inserts, last_enqueue>>

\* cluster.map_all_hosts(table.drop).result()
drop_snapshot_table ==
  /\ pc = "drop_snapshot_table"
  /\ \/ Dispatch(map_all_hosts)
     \/ Succeeded /\ Return
  /\ UNCHANGED <<exports, cluster, outputs, budget, inserts, last_enqueue>>

\* mutation.wait on host h, for the mutation the op was handed.
mutation_wait(h) ==
  \/ /\ pc = "wait_for_person_id_update_mutations" /\ phase = "running"
     /\ wait(h, Mutation(EVENTS_DATA_TABLE, shard_mutations[h.shard_num]))
  \/ /\ pc = "wait_for_overrides_delete_mutations" /\ phase = "running"
     /\ wait(h, Mutation(PERSON_DISTINCT_ID_OVERRIDES_TABLE, delete_mutation))

\* .result() raises the exception of a task that raised: the op raises.
OpRaises ==
  /\ Completed /\ ~Succeeded
  /\ Raise
  /\ UNCHANGED <<exports, cluster, outputs, budget, inserts, last_enqueue>>

\* The job: each op runs on the output of the one before it.
squash_person_overrides ==
  \/ create_snapshot_table
  \/ populate_snapshot_table
  \/ wait_for_snapshot_table_replication
  \/ create_snapshot_dictionary
  \/ load_and_verify_snapshot_dictionary
  \/ start_person_id_update_mutations
  \/ wait_for_person_id_update_mutations
  \/ start_overrides_delete_mutations
  \/ wait_for_overrides_delete_mutations
  \/ drop_snapshot_dictionary
  \/ drop_snapshot_table
  \/ OpRaises

\* The statements the fan-outs run on host h.
HostOperation(h) ==
  \/ table_create(h)
  \/ populate(h)
  \/ sync_replica(h)
  \/ sync_queue_size(h)
  \/ dictionary_create(h)
  \/ load_reload(h)
  \/ load_checksum(h)
  \/ enqueue_person_id_update_mutation(h)
  \/ enqueue_overrides_delete_mutation(h)
  \/ mutation_wait(h)
  \/ dictionary_drop(h)
  \/ table_drop(h)

Engine ==
  \/ \E h \in hosts : Replicate(h)
  \/ \E h \in hosts : DictionaryLoaded(h)
  \/ \E i \in DOMAIN mutations, h \in hosts : MutationReplicated(i, h)
  \/ \E i \in DOMAIN mutations, h \in hosts : MutationApplied(i, h)
  \/ \E i \in DOMAIN mutations, h \in hosts : MutationDone(i, h)

Environment ==
  \/ \E r \in RacingRows : WriteOverride(r)
  \/ \E h \in hosts : HostFails(h)
  \/ \E h \in hosts, r \in ForeignRows : ForeignInsert(h, r)
  \/ \E h \in hosts : DictionaryLoadFails(h)
  \/ \E i \in DOMAIN mutations : KillMutation(i)
  \/ Retry

Next ==
  \/ squash_person_overrides
  \/ \E h \in hosts : HostOperation(h)
  \/ Engine
  \/ Environment

Spec == Init /\ [][Next]_vars

\* A run under faults, without the writers that race it.
LiveInit == Init /\ faults_left = MaxFaults /\ overrides = EndToEnd

LiveNext ==
  \/ squash_person_overrides
  \/ \E h \in hosts : HostOperation(h)
  \/ Engine
  \/ \E h \in hosts : HostFails(h)
  \/ \E i \in DOMAIN mutations : KillMutation(i)
  \/ Retry

\* The thread of a host operation that waits keeps polling: time.sleep(15.0)
\* returns and is_done is asked again.
LiveSpec ==
  /\ LiveInit /\ [][LiveNext]_vars
  /\ \A h \in AllHosts : WF_vars(h \in hosts /\ mutation_wait(h))

\* The run with everything in it scheduled: Dagster runs the op whose
\* input is ready, the executor's threads run the host operations they
\* were handed, and the servers get on with the loads and mutations they
\* have been given. Faults, kills and re-executions may or may not come.
TerminationSpec ==
  /\ LiveInit /\ [][LiveNext]_vars
  /\ WF_vars(squash_person_overrides)
  /\ WF_vars(\E h \in hosts : HostOperation(h))
  /\ WF_vars(Engine)

\* The mutations whose command does not name the run's dictionary.
OtherRunsMutations ==
  {i \in DOMAIN mutations : ~like(mutations[i].command, qualified_name(run_id))}

\* Another run of the job, with its own run id and so its own dictionary,
\* has enqueued its mutation on the table through host h, and the mutation
\* has finished on every replica; nobody has killed it. The model follows
\* the other runs from the stage on that enqueues on the same table.
OtherRun(h, table, command_kind, id) ==
  /\ Cardinality(OtherRunsMutations) < MaxOtherRuns
  /\ pc = IF table = EVENTS_DATA_TABLE THEN "start_person_id_update_mutations"
          ELSE "start_overrides_delete_mutations"
  /\ mutations' = Append(mutations,
       [table |-> table, replicas |-> ReplicasOf(h, table),
        mutation_id |-> 1 + Cardinality({i \in DOMAIN mutations :
                             mutations[i].table = table /\ h \in mutations[i].replicas}),
        command_kind |-> command_kind, command |-> Command(command_kind, id),
        is_killed |-> FALSE, seen |-> ReplicasOf(h, table), applied |-> TRUE,
        is_done |-> ReplicasOf(h, table)])
  /\ UNCHANGED <<exports, topology, data, snapshot, dictionary, pc, phase, tasks, outputs,
                 budget, history>>

\* A run on a small cluster where other runs leave mutations; nothing fails.
OtherRunInit == Init /\ Cardinality(hosts) <= MaxFaultyHosts /\ overrides = EndToEnd

OtherRunNext ==
  \/ squash_person_overrides
  \/ \E h \in hosts : HostOperation(h)
  \/ Engine
  \/ \E h \in hosts, id \in OtherRunIds :
       \/ OtherRun(h, EVENTS_DATA_TABLE, "UPDATE", id)
       \/ OtherRun(h, PERSON_DISTINCT_ID_OVERRIDES_TABLE, "DELETE", id)

OtherRunSpec == OtherRunInit /\ [][OtherRunNext]_vars

\* ----------------------------------------------------------- batch exports
\* The variables of squash_person_overrides, which the batch-export service
\* leaves alone.
squash ==
  <<topology, data, snapshot, dictionary, mutations, pc, phase, tasks, outputs,
    budget, history>>

\* BatchExport.save(): last_updated_at is the time of the save.
save(batch_export) == [batch_export EXCEPT !.last_updated_at = now]

\* The call returns or raises: what the caller sees of it.
Respond(handler, id, returned, exception, rpcs, workflow_id) ==
  /\ response' = [handler |-> handler, batch_export_id |-> id, returned |-> returned,
                  raised |-> exception, rpcs |-> rpcs, workflow_id |-> workflow_id,
                  logged |-> {}]
  /\ requests' = requests + 1

\* The same, for a call that caught and logged exceptions on its way.
RespondLogging(handler, id, returned, exception, rpcs, logged) ==
  /\ response' = [handler |-> handler, batch_export_id |-> id, returned |-> returned,
                  raised |-> exception, rpcs |-> rpcs, workflow_id |-> <<>>,
                  logged |-> logged]
  /\ requests' = requests + 1

\* pause_schedule(temporal, schedule_id): the schedule is paused.
pause_schedule(id) ==
  /\ schedules[id] # "none"
  /\ schedules' = [schedules EXCEPT ![id] = "paused"]

\* unpause_schedule(temporal, schedule_id): the schedule runs again.
unpause_schedule(id) ==
  /\ schedules[id] # "none"
  /\ schedules' = [schedules EXCEPT ![id] = "active"]

\* The body of pause_batch_export without its early return on a paused export.
Pause_Unguarded(handler, id) ==
  LET batch_export == batch_exports[id] IN
  /\ requests < MaxRequests
  /\ IF ~batch_export.exists
     THEN /\ Respond(handler, id, "none", "BatchExportIdError", <<>>, <<>>)
          /\ UNCHANGED <<batch_exports, schedules>>
     ELSE \/ /\ pause_schedule(id)
             /\ batch_exports' = [batch_exports EXCEPT ![id] =
                  save([batch_export EXCEPT !.paused = TRUE, !.last_paused_at = now])]
             /\ Respond(handler, id, "True", "none", <<"pause_schedule">>, <<>>)
          \/ /\ Respond(handler, id, "none", "BatchExportServiceRPCError",
                        <<"pause_schedule">>, <<>>)
             /\ UNCHANGED <<batch_exports, schedules>>
  /\ UNCHANGED <<backfills, workflows, now, squash>>

\* A pause that saves the BatchExport before it calls the schedule.
Pause_SaveFirst(handler, id) ==
  LET batch_export == batch_exports[id] IN
  /\ requests < MaxRequests
  /\ IF ~batch_export.exists
     THEN /\ Respond(handler, id, "none", "BatchExportIdError", <<>>, <<>>)
          /\ UNCHANGED <<batch_exports, schedules>>
     ELSE IF batch_export.paused
     THEN /\ Respond(handler, id, "False", "none", <<>>, <<>>)
          /\ UNCHANGED <<batch_exports, schedules>>
     ELSE /\ batch_exports' = [batch_exports EXCEPT ![id] =
               save([batch_export EXCEPT !.paused = TRUE, !.last_paused_at = now])]
          /\ \/ /\ pause_schedule(id)
                /\ Respond(handler, id, "True", "none", <<"pause_schedule">>, <<>>)
             \/ /\ Respond(handler, id, "none", "BatchExportServiceRPCError",
                           <<"pause_schedule">>, <<>>)
                /\ UNCHANGED schedules
  /\ UNCHANGED <<backfills, workflows, now, squash>>

\* The body of pause_batch_export and of apause_batch_export: the schedule's
\* pause either takes effect or raises.
Pause(handler, id) ==
  LET batch_export == batch_exports[id] IN
  /\ requests < MaxRequests
  /\ IF ~batch_export.exists
     THEN /\ Respond(handler, id, "none", "BatchExportIdError", <<>>, <<>>)
          /\ UNCHANGED <<batch_exports, schedules>>
     ELSE IF batch_export.paused
     THEN /\ Respond(handler, id, "False", "none", <<>>, <<>>)
          /\ UNCHANGED <<batch_exports, schedules>>
     ELSE \/ /\ pause_schedule(id)
             /\ batch_exports' = [batch_exports EXCEPT ![id] =
                  save([batch_export EXCEPT !.paused = TRUE, !.last_paused_at = now])]
             /\ Respond(handler, id, "True", "none", <<"pause_schedule">>, <<>>)
          \/ /\ Respond(handler, id, "none", "BatchExportServiceRPCError",
                        <<"pause_schedule">>, <<>>)
             /\ UNCHANGED <<batch_exports, schedules>>
  /\ UNCHANGED <<backfills, workflows, now, squash>>

pause_batch_export(id) == Pause("pause_batch_export", id)

apause_batch_export(id) == Pause("apause_batch_export", id)

\* A backfill allowed without end_at whatever the destination.
no_end_allowed_Any(destination) == destination \in Destinations

\* destination.type in (Destination.HTTP, Destination.NOOP)
no_end_allowed(destination) == destination \in {"HTTP", "NoOp"}

\* f"{batch_export_id}-Backfill-{start_at_utc_str}-{end_at_utc_str}", with
\* None standing for "START" and for "END".
workflow_id(id, start_at, end_at) == <<id, start_at, end_at>>

\* temporal.start_workflow("backfill-batch-export", inputs, id=workflow_id):
\* the workflows Temporal holds afterwards; it refuses an id it holds.
start_workflow(id, team_id, start_at, end_at) ==
  IF \E w \in workflows : w.workflow_id = workflow_id(id, start_at, end_at)
  THEN {}
  ELSE {workflows \cup {[workflow_id |-> workflow_id(id, start_at, end_at),
                         batch_export_id |-> id, team_id |-> team_id,
                         start_at |-> start_at, end_at |-> end_at]}}

\* backfill_export(temporal, batch_export_id, team_id, start_at, end_at) over
\* the rows B: the ways the call can end, each with the exception raised, the
\* RPCs made, the workflow_id returned and the workflows Temporal then holds.
backfill_export(B, id, team_id, start_at, end_at) ==
  IF ~(B[id].exists /\ B[id].team_id = team_id)
  THEN {[raised |-> "BatchExportIdError", rpcs |-> <<>>, workflow_id |-> <<>>,
         workflows |-> workflows]}
  ELSE IF end_at = None /\ ~no_end_allowed(B[id].destination)
  THEN {[raised |-> "BatchExportWithNoEndNotAllowedError", rpcs |-> <<>>,
         workflow_id |-> <<>>, workflows |-> workflows]}
  ELSE {[raised |-> "none", rpcs |-> <<"start_workflow">>,
         workflow_id |-> workflow_id(id, start_at, end_at), workflows |-> W] :
           W \in start_workflow(id, team_id, start_at, end_at)}
       \cup {[raised |-> "RPCError", rpcs |-> <<"start_workflow">>,
              workflow_id |-> <<>>, workflows |-> workflows]}

\* A caller starts a backfill.
backfill(id, team_id, start_at, end_at) ==
  /\ requests < MaxRequests
  /\ \E o \in backfill_export(batch_exports, id, team_id, start_at, end_at) :
       /\ workflows' = o.workflows
       /\ Respond("backfill_export", id,
                  IF o.raised = "none" THEN "workflow_id" ELSE "none",
                  o.raised, o.rpcs, o.workflow_id)
  /\ UNCHANGED <<batch_exports, schedules, backfills, now, squash>>

\* unpause_batch_export without its early return on an export that is not paused.
unpause_batch_export_Unguarded(id, backfill_arg) ==
  LET batch_export == batch_exports[id] IN
  /\ requests < MaxRequests
  /\ IF ~batch_export.exists
     THEN /\ Respond("unpause_batch_export", id, "none", "BatchExportIdError", <<>>, <<>>)
          /\ UNCHANGED <<batch_exports, schedules, workflows>>
     ELSE \/ /\ Respond("unpause_batch_export", id, "none", "BatchExportServiceRPCError",
                        <<"unpause_schedule">>, <<>>)
             /\ UNCHANGED <<batch_exports, schedules, workflows>>
          \/ /\ unpause_schedule(id)
             /\ batch_exports' = [batch_exports EXCEPT ![id] =
                                    save([batch_export EXCEPT !.paused = FALSE])]
             /\ Respond("unpause_batch_export", id, "None", "none",
                        <<"unpause_schedule">>, <<>>)
             /\ UNCHANGED workflows
  /\ UNCHANGED <<backfills, now, squash>>

\* unpause_batch_export(temporal, batch_export_id, note, backfill); backfill
\* is what the request carried: True, False, or a value that is neither.
unpause_batch_export(id, backfill_arg) ==
  LET batch_export == batch_exports[id]
      saved == save([batch_export EXCEPT !.paused = FALSE])
  IN
  /\ requests < MaxRequests
  /\ IF ~batch_export.exists
     THEN /\ Respond("unpause_batch_export", id, "none", "BatchExportIdError", <<>>, <<>>)
          /\ UNCHANGED <<batch_exports, schedules, workflows>>
     ELSE IF ~batch_export.paused
     THEN /\ Respond("unpause_batch_export", id, "None", "none", <<>>, <<>>)
          /\ UNCHANGED <<batch_exports, schedules, workflows>>
     ELSE \/ /\ Respond("unpause_batch_export", id, "none", "BatchExportServiceRPCError",
                        <<"unpause_schedule">>, <<>>)
             /\ UNCHANGED <<batch_exports, schedules, workflows>>
          \/ /\ unpause_schedule(id)
             /\ batch_exports' = [batch_exports EXCEPT ![id] = saved]
             /\ IF backfill_arg = "False"
                THEN /\ Respond("unpause_batch_export", id, "None", "none",
                                <<"unpause_schedule">>, <<>>)
                     /\ UNCHANGED workflows
                ELSE \E o \in backfill_export([batch_exports EXCEPT ![id] = saved], id,
                                              saved.team_id, saved.last_paused_at,
                                              saved.last_updated_at) :
                       /\ workflows' = o.workflows
                       /\ Respond("unpause_batch_export", id,
                                  IF o.raised = "none" THEN "None" ELSE "none", o.raised,
                                  <<"unpause_schedule">> \o o.rpcs, o.workflow_id)
  /\ UNCHANGED <<backfills, now, squash>>

\* delete_schedule(temporal, schedule_id): the statuses the RPC can end with.
delete_schedule(id) ==
  IF schedules[id] = "none" THEN {"NOT_FOUND"} ELSE {"OK", "UNAVAILABLE"}

\* A delete that reports a missing schedule as any other RPC failure.
batch_export_delete_schedule_Strict(status) ==
  IF status = "OK" THEN "none" ELSE "BatchExportServiceRPCError"

\* batch_export_delete_schedule: what it raises on the RPC's status.
batch_export_delete_schedule(status) ==
  IF status = "OK" THEN "none"
  ELSE IF status = "NOT_FOUND" THEN "BatchExportServiceScheduleNotFound"
  ELSE "BatchExportServiceRPCError"

\* running_backfills_for_batch_export(batch_export_id)
running_backfills_for_batch_export(id) ==
  {b \in backfills : b.batch_export_id = id /\ b.status = "RUNNING"}

\* cancel_running_batch_export_backfill on the backfills C.
cancel_running_batch_export_backfill(C) ==
  {IF b \in C THEN [b EXCEPT !.status = "CANCELLED"] ELSE b : b \in backfills}

\* BatchExportViewSet.perform_destroy on an export the view can see:
\* disable_and_delete_export(instance). Each cancel succeeds or raises; the
\* cancels that raise and a schedule that is not found are logged.
disable_and_delete_export(id) ==
  LET instance == batch_exports[id]
      running == running_backfills_for_batch_export(id)
      cancels == [i \in 1..Cardinality(running) |-> "cancel_workflow"]
  IN
  /\ requests < MaxRequests
  /\ instance.exists /\ ~instance.deleted
  /\ \E C \in SUBSET running, status \in delete_schedule(id) :
       LET exception == batch_export_delete_schedule(status)
           logged == {"Failed to delete backfill" : b \in running \ C}
                     \cup {"The Schedule could not be deleted as it was not found" :
                             e \in {exception} \cap {"BatchExportServiceScheduleNotFound"}}
       IN
       /\ backfills' = cancel_running_batch_export_backfill(C)
       /\ schedules' = IF status = "OK" THEN [schedules EXCEPT ![id] = "none"] ELSE schedules
       /\ IF exception \in {"none", "BatchExportServiceScheduleNotFound"}
          THEN /\ batch_exports' = [batch_exports EXCEPT ![id] =
                                      save([instance EXCEPT !.deleted = TRUE])]
               /\ RespondLogging("disable_and_delete_export", id, "None", "none",
                                 cancels \o <<"delete_schedule">>, logged)
          ELSE /\ UNCHANGED batch_exports
               /\ RespondLogging("disable_and_delete_export", id, "none", exception,
                                 cancels \o <<"delete_schedule">>, logged)
  /\ UNCHANGED <<workflows, now, squash>>

\* The backfill workflow w begins: it records its BatchExportBackfill, running.
BackfillStarts(w) ==
  /\ \A b \in backfills : b.workflow_id # w.workflow_id
  /\ backfills' = backfills \cup {[workflow_id |-> w.workflow_id,
                                    batch_export_id |-> w.batch_export_id,
                                    status |-> "RUNNING"]}
  /\ UNCHANGED <<batch_exports, schedules, workflows, now, requests, response, squash>>

\* Somebody deletes the schedule of an export in Temporal itself.
ScheduleDeleted(id) ==
  /\ schedules[id] # "none"
  /\ schedules' = [schedules EXCEPT ![id] = "none"]
  /\ UNCHANGED <<batch_exports, backfills, workflows, now, requests, response, squash>>

\* Time passes.
Tick ==
  /\ now < MaxNow
  /\ now' = now + 1
  /\ UNCHANGED <<batch_exports, schedules, backfills, workflows, requests, response, squash>>

\* create_schedule(temporal, id, schedule) and update_schedule(temporal, id,
\* schedule, keep_tz): the schedule Temporal holds afterwards, in the state
\* ScheduleState(paused=batch_export.paused) asks for; Temporal refuses to
\* create a schedule it holds and to update one it does not hold.
create_schedule(id, paused) ==
  IF schedules[id] # "none" THEN {}
  ELSE {[schedules EXCEPT ![id] = IF paused THEN "paused" ELSE "active"]}

update_schedule(id, paused) ==
  IF schedules[id] = "none" THEN {}
  ELSE {[schedules EXCEPT ![id] = IF paused THEN "paused" ELSE "active"]}

\* sync_batch_export(batch_export, created): the ways the call can end, each
\* with the exception raised and the schedules Temporal then holds.
sync_batch_export(id, batch_export, created) ==
  {[raised |-> "none", schedules |-> S] :
     S \in IF created THEN create_schedule(id, batch_export.paused)
           ELSE update_schedule(id, batch_export.paused)}
  \cup {[raised |-> "RPCError", schedules |-> schedules]}

\* A block that keeps what it wrote although it raised.
transaction_atomic_Unrolled(before, written, exception) == written

\* with transaction.atomic(): the rows of the database after the block,
\* which wrote the rows written over the rows before and ended with
\* exception.
transaction_atomic(before, written, exception) ==
  IF exception = "none" THEN written ELSE before

\* BatchExportSerializer.create: the schedule is created for the rows built
\* in memory, and the destination and the batch export are saved after it.
create(id, destination) ==
  LET batch_export == [exists |-> TRUE, team_id |-> 1, paused |-> FALSE,
                       last_paused_at |-> None, last_updated_at |-> None,
                       deleted |-> FALSE, destination |-> destination]
  IN
  /\ requests < MaxRequests
  /\ ~batch_exports[id].exists
  /\ \E o \in sync_batch_export(id, batch_export, TRUE) :
       /\ schedules' = o.schedules
       /\ IF o.raised = "none"
          THEN /\ batch_exports' = transaction_atomic(batch_exports,
                     [batch_exports EXCEPT ![id] = save(batch_export)], "none")
               /\ Respond("create", id, "batch_export", "none", <<"create_schedule">>, <<>>)
          ELSE /\ UNCHANGED batch_exports
               /\ Respond("create", id, "none", o.raised, <<"create_schedule">>, <<>>)
  /\ UNCHANGED <<backfills, workflows, now, squash>>

\* BatchExportSerializer.update on an export the view can see: inside one
\* transaction the destination and the batch export are saved and the
\* schedule is updated from them.
update(id, destination) ==
  LET batch_export == save([batch_exports[id] EXCEPT !.destination = destination])
      written == [batch_exports EXCEPT ![id] = batch_export]
  IN
  /\ requests < MaxRequests
  /\ batch_exports[id].exists /\ ~batch_exports[id].deleted
  /\ \E o \in sync_batch_export(id, batch_export, FALSE) :
       /\ schedules' = o.schedules
       /\ batch_exports' = transaction_atomic(batch_exports, written, o.raised)
       /\ Respond("update", id, IF o.raised = "none" THEN "batch_export" ELSE "none",
                  o.raised, <<"update_schedule">>, <<>>)
  /\ UNCHANGED <<backfills, workflows, now, squash>>

\* A request field that is not an ISO formatted datetime with a timezone.
Invalid == -2

\* batch_export.interval_time_delta, in ticks of the clock.
interval_time_delta == 1

\* validate_date_input(date_input, team): the datetime, or the error raised.
validate_date_input(date_input) ==
  [raised |-> IF date_input = Invalid THEN "ValidationError" ELSE "none",
   parsed |-> date_input]

\* BatchExportViewSet.backfill for the team of the export: the request
\* carries start_at and end_at or leaves them out, and earliest is what
\* fetch_earliest_backfill_start_at finds (None: no data).
BatchExportViewSet_backfill(id, start_at_input, end_at_input, earliest) ==
  LET batch_export == batch_exports[id]
      given == start_at_input # None \/ end_at_input # None
      end_at == validate_date_input(end_at_input).parsed
      start_at == IF start_at_input # None /\ earliest # None /\ start_at_input < earliest
                  THEN earliest ELSE validate_date_input(start_at_input).parsed
      Error(message) == Respond("backfill", id, "none", message, <<>>, <<>>)
  IN
  /\ requests < MaxRequests
  /\ IF ~(batch_export.exists /\ ~batch_export.deleted)
     THEN Error("NotFound") /\ UNCHANGED workflows
     ELSE IF \/ validate_date_input(start_at_input).raised # "none"
             \/ validate_date_input(end_at_input).raised # "none"
     THEN Error("ValidationError: Input is not a valid ISO formatted datetime")
          /\ UNCHANGED workflows
     ELSE IF given /\ earliest = None
     THEN Error("ValidationError: There is no data to backfill for this model")
          /\ UNCHANGED workflows
     ELSE IF given /\ end_at # None /\ end_at < earliest
     THEN Error("ValidationError: The provided backfill date range contains no data")
          /\ UNCHANGED workflows
     ELSE IF start_at = None \/ end_at = None
     THEN \E o \in backfill_export(batch_exports, id, batch_export.team_id, start_at, end_at) :
            /\ workflows' = o.workflows
            /\ Respond("backfill", id, IF o.raised = "none" THEN "backfill_id" ELSE "none",
                       o.raised, o.rpcs, o.workflow_id)
     ELSE IF start_at >= end_at
     THEN Error("ValidationError: The initial backfill datetime 'start_at' happens after 'end_at'")
          /\ UNCHANGED workflows
     ELSE IF end_at > now + interval_time_delta
     THEN Error("ValidationError: The provided 'end_at' is too far into the future")
          /\ UNCHANGED workflows
     ELSE \E o \in backfill_export(batch_exports, id, batch_export.team_id, start_at, end_at) :
            /\ workflows' = o.workflows
            /\ Respond("backfill", id, IF o.raised = "none" THEN "backfill_id" ELSE "none",
                       IF o.raised = "BatchExportWithNoEndNotAllowedError"
                       THEN "ValidationError: Backfilling a BatchExport with no end date is not allowed"
                       ELSE o.raised,
                       o.rpcs, o.workflow_id)
  /\ UNCHANGED <<batch_exports, schedules, backfills, now, squash>>

\* No run of squash_person_overrides is in progress.
NoSquash ==
  /\ hosts = {[shard_num |-> 1, replica_num |-> 1]}
  /\ overrides = {} /\ events = {}
  /\ log = <<>>
  /\ table_exists = [h \in hosts |-> FALSE]
  /\ fetched = [h \in hosts |-> {}]
  /\ dictionary = [h \in hosts |-> NoDictionary]
  /\ mutations = <<>>
  /\ pc = "create_snapshot_table" /\ phase = "ready"
  /\ task = [h \in hosts |-> "none"]
  /\ ret = [h \in hosts |-> None]
  /\ raised = [h \in hosts |-> "none"]
  /\ checksums = [h \in hosts |-> None]
  /\ shard_mutations = [s \in ShardsOf(hosts) |-> None]
  /\ delete_mutation = None
  /\ faults_left = 0 /\ retries_left = 0 /\ writes_left = 0
  /\ completed = <<>>
  /\ inserts = [h \in hosts |-> 0]
  /\ last_enqueue = {}

\* One batch export of any destination, paused or not, with its schedule.
BatchExportInit ==
  /\ NoSquash
  /\ \E destination \in Destinations, paused \in BOOLEAN :
       /\ batch_exports = [id \in BatchExportIds |->
            IF id = 1
            THEN [exists |-> TRUE, team_id |-> 1, paused |-> paused,
                  last_paused_at |-> None, last_updated_at |-> 0, deleted |-> FALSE,
                  destination |-> destination]
            ELSE DoesNotExist]
       /\ schedules = [id \in BatchExportIds |->
            IF id = 1 THEN (IF paused THEN "paused" ELSE "active") ELSE "none"]
  /\ backfills = {}
  /\ workflows = {}
  /\ now = 0
  /\ requests = 0
  /\ response = NoResponse

BatchExportNext ==
  \/ \E id \in BatchExportIds : pause_batch_export(id)
  \/ \E id \in BatchExportIds : apause_batch_export(id)
  \/ \E id \in BatchExportIds, backfill_arg \in {"True", "False", "None"} :
       unpause_batch_export(id, backfill_arg)
  \/ \E id \in BatchExportIds, team_id \in ExportTeamIds,
        start_at \in {None, 0}, end_at \in {None, MaxNow} :
       backfill(id, team_id, start_at, end_at)
  \/ \E id \in BatchExportIds : disable_and_delete_export(id)
  \/ \E w \in workflows : BackfillStarts(w)
  \/ \E id \in BatchExportIds : ScheduleDeleted(id)
  \/ Tick

BatchExportSpec == BatchExportInit /\ [][BatchExportNext]_vars

\* The serializer of the REST API creates and updates batch exports while
\* time passes and somebody may delete a schedule in Temporal itself.
SerializerNext ==
  \/ \E id \in BatchExportIds, destination \in Destinations : create(id, destination)
  \/ \E id \in BatchExportIds, destination \in Destinations : update(id, destination)
  \/ \E id \in BatchExportIds : ScheduleDeleted(id)
  \/ Tick

SerializerSpec == BatchExportInit /\ [][SerializerNext]_vars

\* The backfill endpoint of the REST API is called while time passes and
\* the backfills it started begin.
BackfillViewNext ==
  \/ \E id \in BatchExportIds, start_at_input \in {None, Invalid} \cup (0..MaxNow),
        end_at_input \in {None, Invalid} \cup (0..MaxNow + 2),
        earliest \in {None} \cup (0..1) :
       BatchExportViewSet_backfill(id, start_at_input, end_at_input, earliest)
  \/ \E w \in workflows : BackfillStarts(w)
  \/ Tick

BackfillViewSpec == BatchExportInit /\ [][BackfillViewNext]_vars

\* ----------------------------------------------------------------- claims
\* The step applies a DELETE mutation to the override log.
DeleteApplies ==
  \E i \in DOMAIN mutations :
    /\ mutations[i].command_kind = "DELETE"
    /\ ~mutations[i].applied /\ mutations'[i].applied

\* Host h's dictionary is loaded and holds an entry of row r's key whose
\* version is at least r's.
Supersedes(h, r) ==
  /\ dictionary[h].exists /\ dictionary[h].status = "LOADED"
  /\ \E d \in dictionary[h].rows :
       /\ d.team_id = r.team_id /\ d.distinct_id = r.distinct_id
       /\ d.version >= r.version

\* C1: the DELETE mutation, run through the dictionary of a replica, removes
\* an override row of version v exactly when that dictionary has an entry of
\* the row's key with a version s >= v (a row whose key has no entry stays);
\* no other step removes an override row.
C1_VersionOrderingOfDeletion ==
  [][IF DeleteApplies
     THEN \E h \in hosts : \A r \in overrides : (r \notin overrides') <=> Supersedes(h, r)
     ELSE overrides \subseteq overrides']_vars

\* The DELETE has run and nothing more is written: of some key of the
\* snapshot, the override the snapshot's version came from is gone, and an
\* override of a greater version is left.
C1_Witness ==
  /\ writes_left = 0 /\ faults_left = 0 /\ retries_left = 0
  /\ \E i \in DOMAIN mutations : mutations[i].command_kind = "DELETE" /\ mutations[i].applied
  /\ \E h \in hosts : \E d \in dictionary[h].rows :
       /\ dictionary[h].status = "LOADED"
       /\ \A r \in overrides : KeyOf(r) = KeyOf(d) => r.version > d.version
       /\ \E r \in overrides : KeyOf(r) = KeyOf(d)

\* C2 as stated: an override row at or past the cutoff is never removed.
C2_LateRowNeverRemoved ==
  [][\A r \in overrides : r.timestamp >= timestamp => r \in overrides']_vars

\* The step is populate's INSERT.
PopulateInserts == inserts' # inserts

\* C2, amended: an override row at or past the cutoff is never what populate
\* selects (each row populate inserts is a row of the log before the cutoff),
\* and it is removed only by a DELETE through a dictionary holding an entry
\* of its key with a version at least its own: with a greater version than
\* the snapshot's, or a key the snapshot lacks, it survives.
C2_LateRowSurvivesUnlessSuperseded ==
  [][/\ PopulateInserts =>
          \A b \in log'[Len(log')] : \E r \in overrides :
            /\ r.timestamp < timestamp
            /\ KeyOf(r) = KeyOf(b) /\ r.person_id = b.person_id /\ r.version = b.version
     /\ \A r \in overrides :
          (r.timestamp >= timestamp /\ r \notin overrides') =>
             DeleteApplies /\ \E h \in hosts : Supersedes(h, r)]_vars

\* The DELETE has run while the log held a row past the cutoff, written
\* during the run, whose key the snapshot has at a lesser version: it is left.
C2_Witness ==
  /\ writes_left < MaxWrites
  /\ \E i \in DOMAIN mutations : mutations[i].command_kind = "DELETE" /\ mutations[i].applied
  /\ \E r \in overrides \cap RacingRows : \E h \in hosts :
       /\ dictionary[h].status = "LOADED"
       /\ \E d \in dictionary[h].rows : KeyOf(d) = KeyOf(r) /\ d.version < r.version

\* The live mutations in the replication log that host h's replica of table
\* follows.
LiveMutations(h, table) ==
  {i \in DOMAIN mutations :
     mutations[i].table = table /\ h \in mutations[i].replicas /\ ~mutations[i].is_killed}

\* The table the op in progress enqueues its mutation on.
EnqueueTable ==
  IF pc = "start_person_id_update_mutations"
  THEN EVENTS_DATA_TABLE ELSE PERSON_DISTINCT_ID_OVERRIDES_TABLE

\* C3: when an enqueue is called on the host and table of the enqueue that
\* returned last, with no ALTER and no kill in between and that enqueue's
\* mutation the only live one of the table, the call returns the same
\* mutation_id and issues no ALTER: one live mutation remains.
C3_IdempotentEnqueue ==
  [][\A e \in last_enqueue :
       ( /\ pc \in {"start_person_id_update_mutations", "start_overrides_delete_mutations"}
         /\ phase = "running"
         /\ e.table = EnqueueTable
         /\ e.stamp = Len(mutations)
         /\ Cardinality(LiveMutations(e.host, e.table)) = 1
         /\ task[e.host] = "pending" /\ task'[e.host] # "pending"
         /\ raised'[e.host] # "ConnectionError" )
       => /\ task'[e.host] = "ok"
          /\ ret'[e.host] = e.mutation_id
          /\ mutations' = mutations
          /\ Cardinality(LiveMutations(e.host, e.table)) = 1]_vars

\* An enqueue has returned that repeats the enqueue before it.
C3_Witness ==
  \E e \in last_enqueue :
    /\ e.again
    /\ task[e.host] = "ok" /\ ret[e.host] = e.mutation_id
    /\ Cardinality(LiveMutations(e.host, e.table)) = 1

RECURSIVE Total(_, _)
Total(f, S) ==
  IF S = {} THEN 0
  ELSE LET h == CHOOSE x \in S : TRUE IN f[h] + Total(f, S \ {h})

\* C4 as stated: over a run and its retries, populate's INSERT is performed
\* at most once.
C4_InsertAtMostOnce == Total(inserts, hosts) <= 1

\* C4, amended: populate on a host whose replica of the snapshot table is
\* not empty raises and leaves the table as it was; a host whose replica has
\* not fetched an earlier INSERT's block can INSERT again, so the INSERT is
\* performed at most once per host.
C4_PopulateOnNonEmptyFails ==
  [][/\ \A h \in hosts :
          ( /\ pc = "populate_snapshot_table" /\ phase = "running"
            /\ task[h] = "pending" /\ task'[h] # "pending"
            /\ TableRows(h) # {} )
          => /\ task'[h] = "failed"
             /\ log' = log /\ fetched' = fetched /\ inserts' = inserts
     /\ \A h \in hosts : inserts'[h] <= 1]_vars

\* populate has raised its assertion on a host whose replica holds rows.
C4_Witness ==
  /\ pc = "populate_snapshot_table"
  /\ \E h \in hosts :
       task[h] = "failed" /\ raised[h] = "AssertionError" /\ TableRows(h) # {}

\* The checksums load-and-verify collected last are one value, of every host.
Agreed ==
  /\ \A h \in hosts : checksums[h] # None
  /\ \A g, h \in hosts : checksums[g] = checksums[h]

\* C5: while the checksums collected last differ, the job stands at
\* load_and_verify_snapshot_dictionary and no mutation has been issued; once a
\* mutation has been issued, every host has reported a checksum of its loaded
\* dictionary and the checksums are equal.
C5_ChecksumAgreementGate ==
  /\ (\E g, h \in hosts : checksums[g] # checksums[h]) =>
        pc = "load_and_verify_snapshot_dictionary" /\ mutations = <<>>
  /\ mutations # <<>> => Agreed

\* Two hosts have reported different checksums: the op has raised.
C5_Witness ==
  /\ pc = "load_and_verify_snapshot_dictionary" /\ phase = "halted"
  /\ \A h \in hosts : task[h] = "ok"
  /\ \E g, h \in hosts : checksums[g] # checksums[h]
  /\ mutations = <<>>

\* C6: once the DELETE mutation has been issued, every shard's UPDATE
\* mutation of the ShardMutations mapping is reported done by every replica
\* of the shard (so no override row is deleted before that).
C6_DeleteAfterAllUpdatesDone ==
  (\E i \in DOMAIN mutations : mutations[i].command_kind = "DELETE") =>
    \A s \in ShardsOf(hosts) : \E j \in DOMAIN mutations :
      /\ mutations[j].command_kind = "UPDATE"
      /\ mutations[j].replicas = HostsInShard(hosts, s)
      /\ mutations[j].mutation_id = shard_mutations[s]
      /\ mutations[j].is_done = HostsInShard(hosts, s)

\* The DELETE has been issued on a cluster of two shards, one of two replicas.
C6_Witness ==
  /\ \E i \in DOMAIN mutations : mutations[i].command_kind = "DELETE"
  /\ Cardinality(ShardsOf(hosts)) = 2 /\ Cardinality(hosts) = 3

\* C7: a host whose sync finds a queue_size other than 0 raises, and the op
\* returns only when the sync of every host has returned.
C7_ReplicationBarrier ==
  [][/\ \A h \in hosts :
          ( /\ pc = "wait_for_snapshot_table_replication" /\ phase = "running"
            /\ task[h] = "synced" /\ task'[h] # "synced"
            /\ Len(log) - Cardinality(fetched[h]) # 0 )
          => task'[h] = "failed"
     /\ (pc = "wait_for_snapshot_table_replication" /\ pc' # pc) =>
          \A h \in hosts : task[h] = "ok"]_vars

\* A host's sync has raised its assertion over a queue that is not empty.
C7_Witness ==
  /\ pc = "wait_for_snapshot_table_replication"
  /\ \E h \in hosts :
       /\ task[h] = "failed" /\ raised[h] = "AssertionError"
       /\ Len(log) - Cardinality(fetched[h]) > 0

\* C8: when populate returns on a host whose replica was empty, the replica
\* holds, of every key with an override before the cutoff, exactly one row,
\* carrying the greatest version among those overrides and the person_id of
\* an override of that version, and of every other key no row.
C8_PopulateAggregates ==
  [][\A h \in hosts :
       ( /\ pc = "populate_snapshot_table" /\ phase = "running"
         /\ task[h] = "pending" /\ task'[h] = "ok"
         /\ TableRows(h) = {} )
       => \A k \in Keys :
            LET before == {r \in overrides : KeyOf(r) = k /\ r.timestamp < timestamp}
                rows == {t \in UNION {log'[i] : i \in fetched'[h]} : KeyOf(t) = k}
            IN  IF before = {} THEN rows = {}
                ELSE /\ Cardinality(rows) = 1
                     /\ \A t \in rows :
                          /\ \A r \in before : r.version <= t.version
                          /\ \E r \in before :
                               r.version = t.version /\ r.person_id = t.person_id]_vars

\* populate has returned over a log holding two overrides of one key before
\* the cutoff, or one before it and one of another key at or past it.
C8_Witness ==
  /\ pc = "populate_snapshot_table"
  /\ \E h \in hosts :
       /\ task[h] = "ok" /\ Cardinality(TableRows(h)) = 1
       /\ Cardinality(overrides) = 2
       /\ \/ \E r \in overrides :
               r.timestamp >= timestamp /\ \A t \in TableRows(h) : KeyOf(t) # KeyOf(r)
          \/ \A r \in overrides :
               r.timestamp < timestamp /\ \A t \in TableRows(h) : KeyOf(t) = KeyOf(r)

\* The stages of the job, in the order the claim lists them.
StageOrder ==
  <<"create_snapshot_table", "populate_snapshot_table",
    "wait_for_snapshot_table_replication", "create_snapshot_dictionary",
    "load_and_verify_snapshot_dictionary", "start_person_id_update_mutations",
    "wait_for_person_id_update_mutations", "start_overrides_delete_mutations",
    "wait_for_overrides_delete_mutations", "drop_snapshot_dictionary",
    "drop_snapshot_table">>

\* C9: the ops that have returned are a prefix of the eleven stages in their
\* order, the op in progress is the next one, and an op is left only when every
\* host operation of its fan-out has returned: for the stage that follows it.
C9_StageOrder ==
  [][/\ Len(completed) <= Len(StageOrder)
     /\ completed = SubSeq(StageOrder, 1, Len(completed))
     /\ Len(completed) < Len(StageOrder) => pc = StageOrder[Len(completed) + 1]
     /\ pc' # pc =>
          /\ \A h \in hosts : task[h] \in {"none", "ok"}
          /\ completed' = Append(completed, pc)
          /\ completed' = SubSeq(StageOrder, 1, Len(completed'))]_vars

\* The eleven stages have returned.
C9_Witness == pc = "done" /\ Len(completed) = 11 /\ completed[11] = "drop_snapshot_table"

DropStages == {"drop_snapshot_dictionary", "drop_snapshot_table"}

\* C10: while a host operation of the fan-out in progress has raised, the
\* job does not leave the op; once the op has raised, no step moves the job
\* on, drops the snapshot table or the dictionary of any host, or removes a
\* block of the snapshot; and outside the two drop stages no step drops them.
C10_FailureHaltsWithoutRollback ==
  [][/\ (phase = "running" /\ \E h \in hosts : task[h] = "failed") =>
          pc' = pc /\ phase' \in {"running", "halted"} /\ completed' = completed
     /\ phase = "halted" =>
          /\ pc' = pc /\ completed' = completed
          /\ table_exists' = table_exists
          /\ \A h \in hosts : dictionary'[h].exists = dictionary[h].exists
          /\ \A i \in DOMAIN log : i \in DOMAIN log' /\ log'[i] = log[i]
     /\ pc \notin DropStages =>
          \A h \in hosts :
            /\ table_exists[h] => table_exists'[h]
            /\ dictionary[h].exists => dictionary'[h].exists]_vars

\* One host of a fan-out has raised and another has returned: the op has
\* raised, and the table and the dictionary of every host are in place.
C10_Witness ==
  /\ phase = "halted"
  /\ \E g, h \in hosts : task[g] = "failed" /\ task[h] = "ok"
  /\ \A h \in hosts : table_exists[h] /\ dictionary[h].exists

\* Distinct run identifiers give distinct table names and dictionary names.
NamesInjective ==
  \A a, b \in RunIds :
    (name(a) = name(b) \/ dictionary_name(a) = dictionary_name(b)) => a = b

UpdateApplies(i) ==
  /\ mutations[i].command_kind = "UPDATE"
  /\ ~mutations[i].applied /\ mutations'[i].applied

\* C12: the UPDATE mutation of a shard, run through the loaded dictionary of
\* a replica of the shard, leaves every event row in place with its shard,
\* uuid, team_id and distinct_id, sets person_id to the dictionary's
\* person_id of the row's key where the dictionary has the key, and leaves
\* person_id as it was where it lacks the key and on the other shards; no
\* other step changes an event row.
C12_UpdateSetsPersonIdOfMatchedRows ==
  [][IF \E i \in DOMAIN mutations : UpdateApplies(i)
     THEN \E i \in DOMAIN mutations : \E h \in mutations[i].replicas :
            /\ UpdateApplies(i)
            /\ dictionary[h].exists /\ dictionary[h].status = "LOADED"
            /\ Cardinality(events') = Cardinality(events)
            /\ \A e \in events : \E e2 \in events' :
                 LET matched == {d \in dictionary[h].rows :
                                   /\ e.shard = h.shard_num
                                   /\ d.team_id = e.team_id
                                   /\ d.distinct_id = e.distinct_id}
                 IN  /\ e2.shard = e.shard /\ e2.uuid = e.uuid
                     /\ e2.team_id = e.team_id /\ e2.distinct_id = e.distinct_id
                     /\ \A d \in matched : e2.person_id = d.person_id
                     /\ matched = {} => e2.person_id = e.person_id
     ELSE events' = events]_vars

\* An UPDATE has run on a shard holding an event whose key the dictionary
\* has, now of the dictionary's person, and an event whose key it lacks, of
\* the person it had.
C12_Witness ==
  \E i \in DOMAIN mutations : \E e1, e2 \in events :
    /\ mutations[i].command_kind = "UPDATE" /\ mutations[i].applied
    /\ e1.shard \in ShardsOf(mutations[i].replicas) /\ e2.shard = e1.shard
    /\ e1.person_id = 9 /\ e2.person_id = 7

\* The live UPDATE mutations of shard s.
LiveUpdates(s) ==
  {i \in DOMAIN mutations :
     /\ mutations[i].table = EVENTS_DATA_TABLE /\ mutations[i].command_kind = "UPDATE"
     /\ mutations[i].replicas = HostsInShard(hosts, s) /\ ~mutations[i].is_killed}

\* C13: at every point of a run, re-executions of
\* start_person_id_update_mutations included, each shard has at most one
\* live UPDATE mutation of the run's dictionary, and the ShardMutations the
\* op returned has one entry per shard of the cluster, keyed by its number.
C13_OneLiveUpdatePerShard ==
  /\ \A s \in ShardsOf(hosts) : Cardinality(LiveUpdates(s)) <= 1
  /\ (\E n \in 1..Len(completed) : completed[n] = "start_person_id_update_mutations")
       => /\ DOMAIN shard_mutations = ShardsOf(hosts)
          /\ \A s \in ShardsOf(hosts) : shard_mutations[s] # None

\* The live mutations of the op's table that host h's system.mutations
\* shows: the rows the lookup's WHERE clause selects there.
Matches(h) ==
  {i \in LiveMutations(h, EnqueueTable) : h \in mutations[i].seen}

\* Host h's enqueue takes a step that is not a broken connection.
EnqueueSteps(h) ==
  /\ pc \in {"start_person_id_update_mutations", "start_overrides_delete_mutations"}
  /\ phase = "running"
  /\ task[h] \in {"pending", "issued"} /\ task'[h] # task[h]
  /\ raised'[h] # "ConnectionError"

\* C14: a lookup of an enqueue that finds more than one live mutation of the
\* table fails with an assertion error instead of choosing one, and the
\* enqueue issues no mutation; an enqueue that returns has found exactly one.
C14_SeveralMatchesFailFatally ==
  [][\A h \in hosts :
       /\ (EnqueueSteps(h) /\ Cardinality(Matches(h)) > 1)
            => /\ task'[h] = "failed" /\ raised'[h] = "AssertionError"
               /\ ret'[h] = None
               /\ mutations' = mutations
       /\ (EnqueueSteps(h) /\ task'[h] = "ok")
            => /\ Cardinality(Matches(h)) = 1
               /\ mutations' = mutations]_vars

\* An enqueue has failed its assertion on a host that sees two live
\* mutations of the table.
C14_Witness ==
  \E h \in hosts :
    /\ pc \in {"start_person_id_update_mutations", "start_overrides_delete_mutations"}
    /\ task[h] = "failed" /\ raised[h] = "AssertionError"
    /\ Cardinality(Matches(h)) = 2
    /\ Len(mutations) = 2

\* The killed mutations of the op's table that host h's system.mutations shows.
KilledMatches(h) ==
  {i \in DOMAIN mutations :
     /\ mutations[i].table = EnqueueTable /\ h \in mutations[i].seen
     /\ mutations[i].is_killed}

\* C15: an enqueue whose lookup finds only killed mutations of the table
\* issues a fresh mutation, and the mutation_id an enqueue returns is that
\* of a mutation that is not killed, never a killed mutation's.
C15_KilledMutationNotReused ==
  [][\A h \in hosts :
       /\ ( /\ EnqueueSteps(h) /\ task[h] = "pending"
            /\ Matches(h) = {} /\ KilledMatches(h) # {} )
            => /\ task'[h] = "issued"
               /\ Len(mutations') = Len(mutations) + 1
               /\ \A i \in DOMAIN mutations : mutations'[i] = mutations[i]
               /\ LET fresh == mutations'[Len(mutations')]
                  IN  /\ fresh.table = EnqueueTable /\ h \in fresh.seen
                      /\ ~fresh.is_killed /\ ~fresh.applied
                      /\ \A i \in KilledMatches(h) :
                           mutations[i].mutation_id # fresh.mutation_id
       /\ (EnqueueSteps(h) /\ task'[h] = "ok")
            => /\ \E i \in Matches(h) : ret'[h] = mutations[i].mutation_id
               /\ \A i \in KilledMatches(h) : ret'[h] # mutations[i].mutation_id]_vars

\* After a kill, an enqueue has issued a fresh mutation and returned its id.
C15_Witness ==
  \E h \in hosts :
    /\ pc \in {"start_person_id_update_mutations", "start_overrides_delete_mutations"}
    /\ task[h] = "ok" /\ KilledMatches(h) # {}
    /\ \E i \in Matches(h) :
         /\ ret[h] = mutations[i].mutation_id
         /\ \A k \in KilledMatches(h) : k < i

\* The hosts whose task has been submitted and has not completed or raised.
InFlight == {h \in hosts : task[h] \notin {"none", "ok", "failed"}}

\* The fan-out calls with a task in flight: one call per op, but one call
\* per shard in wait_for_person_id_update_mutations.
FanOutsInFlight ==
  IF pc = "wait_for_person_id_update_mutations"
  THEN {HostsInShard(hosts, s) : s \in {h.shard_num : h \in InFlight}}
  ELSE {T \in {{h \in hosts : task[h] # "none"}} : T \cap InFlight # {}}

\* C20 as stated: two fan-out calls are never in flight at the same time,
\* the per-shard waits of wait_for_person_id_update_mutations included.
C20_OneFanOutInFlight == Cardinality(FanOutsInFlight) <= 1

\* C20, amended: the fan-outs of two stages are never in flight at the same
\* time: a stage submits its fan-outs only when no task is in flight, and it
\* returns or raises only when every task it submitted has completed; every
\* stage has one fan-out in flight at most, except
\* wait_for_person_id_update_mutations, which submits one fan-out per shard
\* together and awaits them as one.
C20_StagesDoNotOverlap ==
  [][/\ (phase = "ready" /\ phase' = "running") => InFlight = {}
     /\ (phase = "running" /\ phase' # "running") => InFlight = {}
     /\ pc' # pc => InFlight = {} /\ InFlight' = {}
     /\ phase # "running" => InFlight = {}
     /\ pc # "wait_for_person_id_update_mutations" => Cardinality(FanOutsInFlight) <= 1
     /\ ( /\ pc = "wait_for_person_id_update_mutations"
          /\ phase = "ready" /\ phase' = "running" )
          => FanOutsInFlight' = {HostsInShard(hosts, s) : s \in ShardsOf(hosts)}]_vars

\* The waits of two shards are in flight in wait_for_person_id_update_mutations.
C20_Witness ==
  /\ pc = "wait_for_person_id_update_mutations" /\ phase = "running"
  /\ Cardinality(FanOutsInFlight) = 2
  /\ \A T \in FanOutsInFlight : T \cap InFlight # {}

\* The step is a call of handler on batch export id.
Called(handler, id) ==
  /\ requests' = requests + 1
  /\ response'.handler = handler /\ response'.batch_export_id = id

\* C16: pause_batch_export (and apause_batch_export) on an existing batch
\* export that is not paused returns True only after pausing the schedule
\* and setting paused and last_paused_at; on one already paused it returns
\* False, makes no schedule call and leaves the row as it was.
C16_PauseReturnsWhetherItPaused ==
  [][\A id \in BatchExportIds :
       ( /\ Called("pause_batch_export", id) \/ Called("apause_batch_export", id)
         /\ batch_exports[id].exists )
       => /\ batch_exports[id].paused
               => /\ response'.returned = "False" /\ response'.raised = "none"
                  /\ response'.rpcs = <<>>
                  /\ batch_exports' = batch_exports /\ schedules' = schedules
          /\ ~batch_exports[id].paused
               => /\ response'.returned = "True" \/ response'.raised # "none"
                  /\ response'.rpcs = <<"pause_schedule">>
          /\ response'.returned = "True"
               => /\ ~batch_exports[id].paused
                  /\ schedules'[id] = "paused"
                  /\ batch_exports'[id].paused
                  /\ batch_exports'[id].last_paused_at = now
                  /\ \A f \in {"exists", "team_id", "deleted", "destination"} :
                       batch_exports'[id][f] = batch_exports[id][f]]_vars

\* A pause has returned False on an export an earlier pause had paused.
C16_Witness ==
  /\ response.handler \in {"pause_batch_export", "apause_batch_export"}
  /\ response.returned = "False" /\ response.batch_export_id = 1
  /\ batch_exports[1].paused /\ batch_exports[1].last_paused_at # None
  /\ schedules[1] = "paused"

\* C17: unpause_batch_export that returns on a paused export has unpaused
\* the schedule and set paused to False, and with backfill=True has then
\* started exactly one backfill, from last_paused_at to last_updated_at;
\* on an export that is not paused it does nothing, whatever backfill is.
C17_UnpauseThenBackfill ==
  [][\A id \in BatchExportIds, backfill_arg \in {"True", "False", "None"} :
       ( /\ unpause_batch_export(id, backfill_arg)
         /\ Called("unpause_batch_export", id)
         /\ batch_exports[id].exists )
       => /\ ~batch_exports[id].paused
               => /\ response'.returned = "None" /\ response'.raised = "none"
                  /\ response'.rpcs = <<>>
                  /\ batch_exports' = batch_exports /\ schedules' = schedules
                  /\ workflows' = workflows /\ backfills' = backfills
          /\ (batch_exports[id].paused /\ response'.raised = "none")
               => /\ schedules'[id] = "active"
                  /\ ~batch_exports'[id].paused
                  /\ response'.rpcs[1] = "unpause_schedule"
                  /\ backfill_arg = "False" => workflows' = workflows
                  /\ backfill_arg = "True" =>
                       /\ response'.rpcs = <<"unpause_schedule", "start_workflow">>
                       /\ \E w \in workflows' \ workflows :
                            /\ workflows' = workflows \cup {w}
                            /\ w.batch_export_id = id
                            /\ w.team_id = batch_exports[id].team_id
                            /\ w.start_at = batch_exports[id].last_paused_at
                            /\ w.start_at = batch_exports'[id].last_paused_at
                            /\ w.end_at = batch_exports'[id].last_updated_at]_vars

\* An export paused by a call has been unpaused with a backfill, which
\* covers the time it was paused.
C17_Witness ==
  /\ response.handler = "unpause_batch_export" /\ response.raised = "none"
  /\ response.rpcs = <<"unpause_schedule", "start_workflow">>
  /\ ~batch_exports[1].paused /\ schedules[1] = "active"
  /\ batch_exports[1].last_paused_at # None
  /\ batch_exports[1].last_paused_at < batch_exports[1].last_updated_at
  /\ \E w \in workflows :
       /\ workflows = {w}
       /\ w.start_at = batch_exports[1].last_paused_at
       /\ w.end_at = batch_exports[1].last_updated_at

\* C18: destroying a batch export whose schedule does not exist ignores the
\* NOT_FOUND and saves deleted=True; cancels of running backfills that fail
\* are tolerated: the schedule's deletion is still attempted, and the export
\* is saved deleted unless that deletion fails otherwise than by NOT_FOUND.
C18_DestroyToleratesMissingSchedule ==
  [][\A id \in BatchExportIds :
       Called("disable_and_delete_export", id)
       => LET running == {b \in backfills : b.batch_export_id = id /\ b.status = "RUNNING"}
          IN  /\ Len(response'.rpcs) = Cardinality(running) + 1
              /\ response'.rpcs[Len(response'.rpcs)] = "delete_schedule"
              /\ schedules[id] = "none"
                   => /\ response'.raised = "none"
                      /\ "The Schedule could not be deleted as it was not found"
                           \in response'.logged
              /\ response'.raised = "none"
                   => /\ batch_exports'[id].deleted
                      /\ schedules'[id] = "none"
              /\ response'.raised # "none"
                   => /\ response'.raised = "BatchExportServiceRPCError"
                      /\ schedules[id] # "none" /\ schedules' = schedules
                      /\ batch_exports' = batch_exports
              /\ \A b \in backfills' : b.status = "RUNNING" => b \in backfills]_vars

\* An export whose schedule was missing has been destroyed although the
\* cancel of its running backfill failed.
C18_Witness ==
  /\ response.handler = "disable_and_delete_export" /\ response.raised = "none"
  /\ response.logged = {"Failed to delete backfill",
                        "The Schedule could not be deleted as it was not found"}
  /\ batch_exports[1].deleted
  /\ \E b \in backfills : b.batch_export_id = 1 /\ b.status = "RUNNING"

\* C19: backfill_export with no end_at starts a backfill workflow only when
\* the export's destination is HTTP or NoOp, and for any other destination
\* it raises BatchExportWithNoEndNotAllowedError and starts none; with an
\* unknown (batch_export_id, team_id) it raises BatchExportIdError and
\* starts none.
C19_NoEndOnlyForHttp ==
  [][\A id \in BatchExportIds, team_id \in ExportTeamIds,
        start_at \in {None, 0}, end_at \in {None, MaxNow} :
       (backfill(id, team_id, start_at, end_at) /\ Called("backfill_export", id))
       => LET known == batch_exports[id].exists /\ batch_exports[id].team_id = team_id
              http == batch_exports[id].destination \in {"HTTP", "NoOp"}
          IN  /\ ~known
                   => /\ response'.raised = "BatchExportIdError"
                      /\ workflows' = workflows /\ response'.rpcs = <<>>
              /\ (known /\ end_at = None /\ ~http)
                   => /\ response'.raised = "BatchExportWithNoEndNotAllowedError"
                      /\ workflows' = workflows /\ response'.rpcs = <<>>
              /\ (known /\ (end_at # None \/ http))
                   => /\ response'.raised \in {"none", "RPCError"}
                      /\ response'.rpcs = <<"start_workflow">>
                      /\ response'.raised = "none"
                           => \E w \in workflows' \ workflows :
                                /\ workflows' = workflows \cup {w}
                                /\ w.batch_export_id = id /\ w.team_id = team_id
                                /\ w.start_at = start_at /\ w.end_at = end_at
                                /\ response'.workflow_id = w.workflow_id
              /\ \A w \in workflows' \ workflows : w.end_at = None => known /\ http]_vars

\* A backfill with no end_at has been refused on an export whose destination
\* is neither HTTP nor NoOp, and no workflow was started.
C19_Witness ==
  /\ response.handler = "backfill_export"
  /\ response.raised = "BatchExportWithNoEndNotAllowedError"
  /\ batch_exports[1].destination \notin {"HTTP", "NoOp"}
  /\ workflows = {}

\* C21: no host creates its dictionary before the sync of every host of the
\* cluster has returned: a dictionary is created only in
\* create_snapshot_dictionary, which follows
\* wait_for_snapshot_table_replication; that op is left only with the sync of
\* every host returned, none raised and none missing; and a sync returns only
\* over a replication queue it found empty.
C21_DictionaryAfterSyncOnEveryHost ==
  [][/\ \A h \in hosts :
          (dictionary'[h].exists /\ ~dictionary[h].exists)
          => /\ pc = "create_snapshot_dictionary" /\ phase = "running"
             /\ Len(completed) >= 3
             /\ completed[3] = "wait_for_snapshot_table_replication"
     /\ (pc = "wait_for_snapshot_table_replication" /\ pc' # pc)
          => /\ pc' = "create_snapshot_dictionary"
             /\ \A h \in hosts : task[h] = "ok" /\ raised[h] = "none"
             /\ \A h \in hosts : ~dictionary[h].exists
     /\ \A h \in hosts :
          ( /\ pc = "wait_for_snapshot_table_replication"
            /\ task[h] # "ok" /\ task'[h] = "ok" )
          => /\ task[h] = "synced"
             /\ Len(log) = Cardinality(fetched[h])]_vars

\* One host of several has created its dictionary and another has not yet,
\* after the barrier.
C21_Witness ==
  /\ pc = "create_snapshot_dictionary" /\ phase = "running"
  /\ completed[3] = "wait_for_snapshot_table_replication"
  /\ \E g, h \in hosts :
       /\ dictionary[g].exists /\ task[g] = "ok"
       /\ ~dictionary[h].exists /\ task[h] = "pending"

\* Host h sees the UPDATE mutation that ShardMutations holds for its shard,
\* and has reported it done.
ObservedDone(h) ==
  \E j \in DOMAIN mutations :
    /\ mutations[j].table = EVENTS_DATA_TABLE
    /\ mutations[j].replicas = HostsInShard(hosts, h.shard_num)
    /\ mutations[j].mutation_id = shard_mutations[h.shard_num]
    /\ h \in mutations[j].seen /\ h \in mutations[j].is_done

\* C22: wait_for_person_id_update_mutations returns only when, for every
\* entry of ShardMutations, every replica of the shard has seen is_done of
\* the shard's mutation; a replica's wait returns only then; and the op
\* returns the same output whatever the order the waits finished in.
C22_WaitsForEveryReplicaOfEveryShard ==
  [][/\ \A h \in hosts :
          ( /\ pc = "wait_for_person_id_update_mutations"
            /\ task[h] # "ok" /\ task'[h] = "ok" )
          => ObservedDone(h)
     /\ (pc = "wait_for_person_id_update_mutations" /\ pc' # pc)
          => /\ DOMAIN shard_mutations = ShardsOf(hosts)
             /\ \A s \in DOMAIN shard_mutations : \A h \in HostsInShard(hosts, s) :
                  task[h] = "ok" /\ ObservedDone(h)
             /\ pc' = "start_overrides_delete_mutations"
             /\ outputs' = outputs]_vars

\* The op has returned on a cluster of two shards, one of them of two replicas.
C22_Witness ==
  /\ pc = "start_overrides_delete_mutations" /\ phase = "ready"
  /\ Cardinality(ShardsOf(hosts)) = 2 /\ Cardinality(hosts) = 3
  /\ \A h \in hosts : task[h] = "ok" /\ ObservedDone(h)

\* Host h is in Mutation.wait, polling is_done.
Waiting(h) ==
  /\ pc \in {"wait_for_person_id_update_mutations", "wait_for_overrides_delete_mutations"}
  /\ phase = "running" /\ task[h] = "pending"

\* The mutation host h waits for.
Awaited(h) ==
  IF pc = "wait_for_person_id_update_mutations"
  THEN Mutation(EVENTS_DATA_TABLE, shard_mutations[h.shard_num])
  ELSE Mutation(PERSON_DISTINCT_ID_OVERRIDES_TABLE, delete_mutation)

\* C23: Mutation.wait returns on a host only in a state where is_done is
\* true there for (table, mutation_id); while is_done is false nothing ends
\* the wait but the loss of the connection (no timeout, no limit of polls);
\* and a wait whose mutation is done on its host comes to an end.
C23_WaitReturnsOnlyAndWheneverDone ==
  /\ [][\A h \in hosts :
          (Waiting(h) /\ task'[h] # "pending")
          => /\ task'[h] = "ok" => is_done(h, Awaited(h)) = "true"
             /\ is_done(h, Awaited(h)) = "false"
                  => task'[h] = "failed" /\ raised'[h] = "ConnectionError"]_vars
  /\ \A h \in AllHosts :
       (h \in hosts /\ Waiting(h) /\ is_done(h, Awaited(h)) = "true")
         ~> (h \in hosts /\ task[h] \in {"ok", "failed"})

\* One host's wait has returned on its mutation done, while another host
\* polls a mutation that is not done there yet.
C23_Witness ==
  \E g, h \in hosts :
    /\ Waiting(h) /\ is_done(h, Awaited(h)) = "false"
    /\ task[g] = "ok" /\ is_done(g, Awaited(g)) = "true"

\* The statuses system.dictionaries reports.
Statuses ==
  {"NOT_LOADED", "LOADED", "FAILED", "LOADING", "FAILED_AND_RELOADING",
   "LOADED_AND_RELOADING"}

\* What __is_loaded answers on every status, and on a dictionary that does
\* not exist.
IsLoadedCases ==
  /\ is_loaded({}) = "Exception: dictionary does not exist"
  /\ \A st \in Statuses :
       is_loaded({[status |-> st]}) =
         IF st = "LOADED" THEN "true"
         ELSE IF st \in {"LOADING", "FAILED_AND_RELOADING", "LOADED_AND_RELOADING"}
         THEN "false"
         ELSE IF st = "FAILED" THEN "Exception: failed to load: last_exception"
         ELSE "Exception: unexpected status"

\* Host h's load takes a step that is not a broken connection.
LoadSteps(h, at) ==
  /\ pc = "load_and_verify_snapshot_dictionary" /\ phase = "running"
  /\ task[h] = at /\ task'[h] # at
  /\ raised'[h] # "ConnectionError"

\* C24: dictionary.load on a host first triggers a reload, whatever the
\* status, and then polls: it goes on to the checksum only on LOADED, stays
\* in its loop on the three statuses in progress, raises with the
\* dictionary's last_exception on FAILED, and raises on any other status and
\* on a dictionary that does not exist; the op does not return once a host
\* has raised.
C24_LoadPollsUntilLoadedOrFailed ==
  [][/\ IsLoadedCases
     /\ \A h \in hosts :
          /\ LoadSteps(h, "pending")
               => /\ task'[h] = "reloading"
                  /\ dictionary'[h].status \in
                       {"LOADING", "FAILED_AND_RELOADING", "LOADED_AND_RELOADING"}
          /\ LoadSteps(h, "reloading")
               => /\ dictionary[h].status \in {"LOADED", "FAILED"}
                  /\ dictionary[h].status = "LOADED"
                       => /\ task'[h] = "ok"
                          /\ ret'[h] = table_checksum(dictionary[h].rows)
                  /\ dictionary[h].status = "FAILED"
                       => /\ task'[h] = "failed"
                          /\ raised'[h] = "Exception: failed to load: last_exception"
     /\ ( /\ pc = "load_and_verify_snapshot_dictionary"
          /\ \E h \in hosts : task[h] = "failed" )
          => /\ pc' = pc /\ completed' = completed
             /\ phase = "running" => phase' \in {"running", "halted"}]_vars

\* The load of one host has raised on FAILED after the reload of a dictionary
\* that was loaded, and the op has raised.
C24_Witness ==
  /\ pc = "load_and_verify_snapshot_dictionary" /\ phase = "halted"
  /\ \E h \in hosts :
       /\ task[h] = "failed" /\ dictionary[h].status = "FAILED"
       /\ raised[h] = "Exception: failed to load: last_exception"


\* C25: an enqueue whose first lookup finds no live mutation of the table
\* issues the ALTER and then looks again; when the second lookup finds no
\* live mutation either, the enqueue fails with an assertion error, and an
\* enqueue never returns a handle without a mutation_id.
C25_RequeryFindingNothingFails ==
  [][\A h \in hosts :
       /\ (EnqueueSteps(h) /\ task[h] = "pending" /\ Matches(h) = {})
            => /\ task'[h] = "issued"
               /\ Len(mutations') = Len(mutations) + 1
               /\ mutations'[Len(mutations')].seen = {h}
       /\ (EnqueueSteps(h) /\ task[h] = "issued")
            => /\ mutations' = mutations
               /\ task'[h] \in {"ok", "failed"}
               /\ Matches(h) = {}
                    => /\ task'[h] = "failed" /\ raised'[h] = "AssertionError"
                       /\ ret'[h] = None
       /\ (EnqueueSteps(h) /\ task'[h] = "ok") => ret'[h] # None]_vars

\* The second lookup of an enqueue has found nothing (the mutation it issued
\* was killed in between) and the enqueue has failed its assertion.
C25_Witness ==
  \E h \in hosts :
    /\ pc \in {"start_person_id_update_mutations", "start_overrides_delete_mutations"}
    /\ task[h] = "failed" /\ raised[h] = "AssertionError"
    /\ Matches(h) = {} /\ KilledMatches(h) # {}


\* The checksum of every set of at most MaxRows rows is the same in every
\* order the rows are read in.
ChecksumCases ==
  \A D \in SUBSET SnapshotRows :
    Cardinality(D) <= MaxRows
      => \A s \in Enumerations(D) : groupBitXor(row_checksum(s)) = table_checksum(D)

\* C26: the checksum a host reports of its dictionary does not depend on
\* the order of the rows: it is the XOR of the row hashes in every order the
\* rows can be enumerated in, so two hosts whose dictionaries hold the same
\* set of rows report the same checksum.
C26_ChecksumOrderIndependent ==
  [][/\ ChecksumCases
     /\ \A h \in hosts :
          (LoadSteps(h, "reloading") /\ task'[h] = "ok")
            => /\ \A s \in Enumerations(dictionary[h].rows) :
                    ret'[h] = groupBitXor(row_checksum(s))
               /\ \A g \in hosts :
                    (task[g] = "ok" /\ dictionary[g].rows = dictionary[h].rows)
                      => ret[g] = ret'[h]]_vars

\* Two hosts have loaded the same two rows and reported the same checksum.
C26_Witness ==
  /\ pc = "load_and_verify_snapshot_dictionary"
  /\ \E g, h \in hosts :
       /\ g # h /\ task[g] = "ok" /\ task[h] = "ok"
       /\ dictionary[g].rows = dictionary[h].rows
       /\ Cardinality(dictionary[h].rows) = 2
       /\ ret[g] = ret[h] /\ ret[h] = table_checksum(dictionary[h].rows)


\* C27: when two invocations of an enqueue of the same dictionary and table
\* interleave (a re-execution running while the effect of the original is
\* still spreading), the table has one live mutation at most on every
\* replica set, and every invocation that returns returns its mutation_id.
C27_InterleavedEnqueuesAgree ==
  /\ \A h \in hosts :
       \A table \in {EVENTS_DATA_TABLE, PERSON_DISTINCT_ID_OVERRIDES_TABLE} :
         Cardinality(LiveMutations(h, table)) <= 1
  /\ \A h \in hosts :
       ( /\ pc \in {"start_person_id_update_mutations", "start_overrides_delete_mutations"}
         /\ task[h] = "ok" )
       => \A i \in LiveMutations(h, EnqueueTable) : ret[h] = mutations[i].mutation_id


\* The run's mutations are done: the UPDATE mutation of every shard on every
\* replica of the shard, the DELETE mutation on every host.
RunMutationsDone ==
  /\ \A h \in hosts :
       is_done(h, Mutation(EVENTS_DATA_TABLE, shard_mutations[h.shard_num])) = "true"
  /\ \A h \in hosts :
       is_done(h, Mutation(PERSON_DISTINCT_ID_OVERRIDES_TABLE, delete_mutation)) = "true"

\* The live mutations some replica has not finished.
Unfinished ==
  {i \in DOMAIN mutations :
     ~mutations[i].is_killed /\ mutations[i].is_done # mutations[i].replicas}

\* The drops come after the run's mutations and in order.
DropsInOrder ==
  /\ (pc = "drop_snapshot_dictionary" /\ phase = "ready" /\ phase' = "running")
       => RunMutationsDone
  /\ \A h \in hosts :
       (dictionary[h].exists /\ ~dictionary'[h].exists)
         => pc = "drop_snapshot_dictionary" /\ RunMutationsDone
  /\ \A h \in hosts :
       (table_exists[h] /\ ~table_exists'[h])
         => /\ pc = "drop_snapshot_table"
            /\ \A g \in hosts : ~dictionary[g].exists

\* C28: the snapshot dictionary is never dropped on a host while a live
\* mutation that reads it is unfinished: when drop_snapshot_dictionary
\* starts, and when it drops the dictionary on a host, every shard's UPDATE
\* mutation is done on every replica of the shard and the DELETE mutation
\* on every host; and the snapshot table is dropped on a host only when the
\* dictionary has been dropped on every host.
C28_NoDropWhileMutationUnfinished ==
  [][/\ DropsInOrder
     /\ \A h \in hosts :
          (dictionary[h].exists /\ ~dictionary'[h].exists) => Unfinished = {}]_vars


\* Host h's system.mutations has no row of the mutation h waits for.
NoRow(h) ==
  \A i \in SystemMutations(h, Awaited(h).table) :
    mutations[i].mutation_id # Awaited(h).mutation_id

\* C29: is_done on a host whose system.mutations has no row of (table,
\* mutation_id), the mutation not having reached the host yet, raises
\* instead of answering not done, so the poll of wait on that host fails
\* the wait and never returns or goes on polling.
C29_NoRowFailsTheWait ==
  [][\A h \in hosts :
       (Waiting(h) /\ NoRow(h))
         => /\ is_done(h, Awaited(h)) = "raise"
            /\ ENABLED mutation_wait(h)
            /\ task'[h] # "pending"
                 => /\ task'[h] = "failed" /\ ret'[h] = None
                    /\ raised'[h] \in {"ValueError", "ConnectionError"}]_vars

\* A wait has failed on a host that the mutation it waits for has not
\* reached, while the host that issued the mutation lists it.
C29_Witness ==
  \E g, h \in hosts :
    /\ pc \in {"wait_for_person_id_update_mutations", "wait_for_overrides_delete_mutations"}
    /\ task[h] = "failed" /\ raised[h] = "ValueError"
    /\ NoRow(h) /\ ~NoRow(g)
    /\ Awaited(h) = Awaited(g)


\* A name occurs in the command of a run exactly when it is that run's.
LikeCases ==
  \A a, b \in RunIds : \A command_kind \in {"UPDATE", "DELETE"} :
    like(Command(command_kind, b), qualified_name(a)) <=> a = b

\* The live mutations of the op's table that host h's system.mutations
\* shows and whose command names the dictionary of run id.
MatchesOf(h, id) ==
  {i \in Matches(h) : mutations[i].command = Command(mutations[i].command_kind, id)}

\* C30: an enqueue does not reuse the mutation of another run: a live
\* mutation of the table whose command names another run's dictionary is
\* not matched by the lookup, so with no live mutation of its own the
\* enqueue issues one, and the mutation an enqueue returns is one whose
\* command names the run's own dictionary.
C30_OtherRunsMutationNotReused ==
  [][/\ LikeCases
     /\ \A h \in hosts :
          /\ ( /\ EnqueueSteps(h) /\ task[h] = "pending"
               /\ MatchesOf(h, run_id) = {} )
               => /\ task'[h] = "issued"
                  /\ Len(mutations') = Len(mutations) + 1
                  /\ mutations'[Len(mutations')].command
                       = Command(mutations'[Len(mutations')].command_kind, run_id)
          /\ (EnqueueSteps(h) /\ task'[h] = "ok")
               => /\ \E i \in MatchesOf(h, run_id) : ret'[h] = mutations[i].mutation_id
                  /\ \A id \in OtherRunIds : \A i \in MatchesOf(h, id) :
                       ret'[h] # mutations[i].mutation_id]_vars

\* An enqueue has returned the run's own mutation on a host that also lists
\* a live mutation of another run on the same table, issued before it.
C30_Witness ==
  \E h \in hosts :
    /\ pc \in {"start_person_id_update_mutations", "start_overrides_delete_mutations"}
    /\ task[h] = "ok"
    /\ \E i \in MatchesOf(h, run_id) :
         /\ ret[h] = mutations[i].mutation_id
         /\ \E id \in OtherRunIds : \E k \in MatchesOf(h, id) : k < i


\* The job has returned and no host has the snapshot dictionary or table.
Final ==
  /\ pc = "done"
  /\ \A h \in hosts : ~dictionary[h].exists /\ ~table_exists[h]

\* C31: a run in which no op raises (every host operation succeeds, every
\* load reports LOADED and the checksums agree) and no mutation is killed,
\* so that every mutation becomes done on the hosts that wait for it,
\* reaches the end of the job; and at the end of the job the snapshot
\* dictionary and the snapshot table exist on no host.
C31_RunReachesFinalState ==
  /\ [](pc = "done" => Final)
  /\ <>(Final \/ phase = "halted" \/ \E i \in DOMAIN mutations : mutations[i].is_killed)

\* The job has come to its end on a cluster of two hosts, with both of its
\* mutations done everywhere and nothing left of the snapshot.
C31_Witness ==
  /\ Final /\ Cardinality(hosts) = 2
  /\ Len(mutations) >= 2
  /\ \A i \in DOMAIN mutations : mutations[i].is_done = mutations[i].replicas


\* BatchExport id, where it has a schedule, is paused exactly when its
\* schedule is.
PausedInStep(id) ==
  (batch_exports[id].exists /\ schedules[id] # "none")
    => (batch_exports[id].paused <=> schedules[id] = "paused")

\* C32: BatchExport.paused and the paused state of the schedule, equal at
\* the start, are equal after every sequence of pause_batch_export,
\* apause_batch_export and unpause_batch_export calls that have returned or
\* raised, whichever of their schedule calls took effect and whichever
\* failed.
C32_PausedMatchesSchedule == \A id \in BatchExportIds : PausedInStep(id)

\* An export that a call paused has been unpaused by a later call, and both
\* the schedule and the row say so.
C32_Witness ==
  /\ response.handler = "unpause_batch_export" /\ response.raised = "none"
  /\ response.rpcs # <<>> /\ response.batch_export_id = 1
  /\ batch_exports[1].last_paused_at # None
  /\ ~batch_exports[1].paused /\ schedules[1] = "active"


\* The step is a pause_batch_export, apause_batch_export or
\* unpause_batch_export of batch export id that raises.
PauseOrUnpauseRaises(id) ==
  /\ \/ Called("pause_batch_export", id)
     \/ Called("apause_batch_export", id)
     \/ Called("unpause_batch_export", id)
  /\ response'.raised # "none"

\* C33 as stated: every call of pause_batch_export and unpause_batch_export
\* that raises leaves the stored BatchExport as it was: an unknown id raises
\* BatchExportIdError without a schedule call, and any other error is a
\* BatchExportServiceRPCError of the schedule call, with no backfill started.
C33_EveryErrorLeavesTheRowUnchanged ==
  [][\A id \in BatchExportIds :
       PauseOrUnpauseRaises(id)
       => /\ batch_exports' = batch_exports
          /\ workflows' = workflows
          /\ ~batch_exports[id].exists
               => response'.raised = "BatchExportIdError" /\ response'.rpcs = <<>>
          /\ batch_exports[id].exists
               => response'.raised = "BatchExportServiceRPCError"]_vars

\* C33, amended: an unknown id raises BatchExportIdError with no schedule
\* call and a failing schedule pause or unpause raises
\* BatchExportServiceRPCError, both with the stored BatchExport, the
\* schedule and the backfills as they were; the one other error is that of
\* the backfill unpause_batch_export starts after it has unpaused, which
\* leaves the BatchExport saved as unpaused, its schedule running,
\* last_paused_at as it was and no backfill started.
C33_ErrorsUpToTheScheduleCallChangeNothing ==
  [][\A id \in BatchExportIds :
       PauseOrUnpauseRaises(id)
       => /\ workflows' = workflows /\ backfills' = backfills
          /\ ~batch_exports[id].exists
               => /\ response'.raised = "BatchExportIdError" /\ response'.rpcs = <<>>
                  /\ batch_exports' = batch_exports /\ schedules' = schedules
          /\ (batch_exports[id].exists /\ Len(response'.rpcs) <= 1)
               => /\ response'.raised = "BatchExportServiceRPCError"
                  /\ response'.rpcs \in {<<"pause_schedule">>, <<"unpause_schedule">>}
                  /\ batch_exports' = batch_exports /\ schedules' = schedules
          /\ (batch_exports[id].exists /\ Len(response'.rpcs) > 1)
               => /\ response'.handler = "unpause_batch_export"
                  /\ response'.rpcs = <<"unpause_schedule", "start_workflow">>
                  /\ batch_exports[id].paused /\ schedules'[id] = "active"
                  /\ batch_exports'[id] = save([batch_exports[id] EXCEPT !.paused = FALSE])
                  /\ \A other \in BatchExportIds \ {id} :
                       batch_exports'[other] = batch_exports[other]]_vars

\* The schedule call of an unpause has failed on an export that an earlier
\* call paused: the export and its schedule are still paused.
C33_Witness ==
  /\ response.handler = "unpause_batch_export"
  /\ response.raised = "BatchExportServiceRPCError"
  /\ response.rpcs = <<"unpause_schedule">> /\ response.batch_export_id = 1
  /\ batch_exports[1].paused /\ batch_exports[1].last_paused_at # None
  /\ schedules[1] = "paused"


\* C34: a schedule sync that fails leaves the database as it was: create
\* saves no BatchExport and no destination unless the schedule was created,
\* and update hands back the rows as they were before it when the update
\* of the schedule fails; the rows change only with a sync that succeeded.
C34_FailedSyncLeavesDatabaseUnchanged ==
  [][\A id \in BatchExportIds :
       (Called("create", id) \/ Called("update", id))
       => /\ response'.raised # "none"
               => /\ batch_exports' = batch_exports
                  /\ schedules' = schedules
          /\ batch_exports' # batch_exports
               => /\ response'.raised = "none"
                  /\ schedules'[id] # "none"
                  /\ Called("create", id) => schedules[id] = "none"
          /\ (Called("create", id) /\ response'.raised = "none")
               => ~batch_exports[id].exists /\ batch_exports'[id].exists]_vars

\* The update of the schedule has failed for an update that asked for
\* another destination: the row still has the destination it had.
C34_Witness ==
  /\ response.handler = "update" /\ response.raised # "none"
  /\ response.batch_export_id = 1
  /\ schedules[1] # "none"
  /\ batch_exports[1].last_updated_at = 0 /\ now > 0


\* C35: in the backfill endpoint, a request without end_at for an export
\* whose destination is neither HTTP nor NoOp, which makes backfill_export
\* raise BatchExportWithNoEndNotAllowedError, is answered with the
\* ValidationError "Backfilling a BatchExport with no end date is not
\* allowed": the error of backfill_export never reaches the caller as it is.
C35_NoEndReportedAsValidationError ==
  [][\A id \in BatchExportIds :
       Called("backfill", id)
       => /\ response'.raised # "BatchExportWithNoEndNotAllowedError"
          /\ \A start_at_input \in {None} \cup (0..MaxNow), earliest \in 0..1 :
               ( /\ BatchExportViewSet_backfill(id, start_at_input, None, earliest)
                 /\ batch_exports[id].exists /\ ~batch_exports[id].deleted
                 /\ ~no_end_allowed(batch_exports[id].destination) )
               => response'.raised =
                    "ValidationError: Backfilling a BatchExport with no end date is not allowed"]_vars

====
